---- MODULE Spec2Model ----
(***************************************************************************)
(* A model of the topic-driven collection and enrichment pipeline:         *)
(* TwitterDataCollector (scripts/data_collector.py), TwitterDataCleaner    *)
(* (scripts/data_cleaner.py), TwitterDataProcessor                         *)
(* (scripts/data_processor.py), RealTimeCollector                          *)
(* (scripts/realtime_collector.py) and the drivers of main.py.             *)
(***************************************************************************)
EXTENDS Integers, Sequences, FiniteSets, TLC

(***************************************************************************)
(* Bounds of the model.                                                    *)
(***************************************************************************)
\* the longest configured search_queries list explored
MaxQueries == 2
\* the most items one search response carries
MaxFetch == 2
\* the largest tweets_per_collection / count explored
MaxCount == 2
\* the most rows of a table handed to the cleaner
MaxRows == 3
MaxCap == 2
\* the most cycles of one real-time worker
MaxCycles == 2
\* the most symbols of a text handed to a sentiment scorer
MaxWords == 3
\* the most calls of a function called on its own in a run
MaxCalls == 2

\* the most calls made on a RealTimeCollector
MaxApiCalls == 3

(***************************************************************************)
(* Configuration.                                                          *)
(***************************************************************************)
\* the keys of TOPICS_CONFIG (two of the three configured topics)
Topics == {"stock_market", "sports"}

\* list(TOPICS_CONFIG.keys()): dictionary order
TopicOrder == <<"stock_market", "sports">>

\* the query strings a search_queries list is made of
QueryNames == <<"q1", "q2", "q3", "q4">>

\* RATE_LIMITS['tweets_per_request']
tweets_per_request == 100

(***************************************************************************)
(* Python values.                                                          *)
(***************************************************************************)
None == [k |-> "none"]

StrVal(s) == [k |-> "str", v |-> s]

IntVal(n) == [k |-> "int", v |-> n]

Min(a, b) == IF a < b THEN a ELSE b

Max(a, b) == IF a > b THEN a ELSE b

RECURSIVE Concat(_)
Concat(ss) == IF ss = <<>> THEN <<>> ELSE Head(ss) \o Concat(Tail(ss))

Range(s) == {s[i] : i \in 1..Len(s)}

\* bool(x) of a Python value
Truthy(x) ==
    CASE x.k = "none" -> FALSE
      [] x.k = "int" -> x.v # 0
      [] x.k = "str" -> x.v # <<>>
      [] x.k = "dict" -> DOMAIN x.v # {}
      [] OTHER -> TRUE

\* str(x) of an identifier value
PyStr(x) ==
    CASE x.k = "int" -> ToString(x.v)
      [] x.k = "none" -> "None"
      [] OTHER -> "object"

\* d.get(key, default) of a dict
DictGet(d, key, default) == IF key \in DOMAIN d THEN d[key] ELSE default

(***************************************************************************)
(* pandas.DataFrame: an ordered list of columns and an ordered list of     *)
(* rows, each row with its index label and its cells.                      *)
(***************************************************************************)
EmptyDataFrame == [columns |-> <<>>, rows |-> <<>>]

\* df.empty
IsEmpty(df) == df.rows = <<>> \/ df.columns = <<>>

\* pd.DataFrame(list of dicts): RangeIndex, columns in key order
DataFrameOf(dicts, columns) ==
    [columns |-> columns,
     rows |-> [i \in 1..Len(dicts) |-> [index |-> i - 1, cells |-> dicts[i]]]]

\* df[col] = values, one per row (a new column goes last, an old one is overwritten)
SetColumn(df, col, values) ==
    [columns |-> IF col \in Range(df.columns) THEN df.columns
                 ELSE Append(df.columns, col),
     rows |-> [i \in 1..Len(df.rows) |->
                 [index |-> df.rows[i].index,
                  cells |-> (col :> values[i]) @@ df.rows[i].cells]]]

\* df[col] = value, the same for every row
SetColumnTo(df, col, value) ==
    SetColumn(df, col, [i \in 1..Len(df.rows) |-> value])

(***************************************************************************)
(* The raw items of the search capability (tweepy Tweet objects): an item  *)
(* is its attributes; an attribute the object lacks is not in the domain.  *)
(***************************************************************************)
\* two points in time
MondayMorning == [year |-> 2025, month |-> 1, day |-> 6, dayofweek |-> 0, hour |-> 9]

SundayNight == [year |-> 2025, month |-> 2, day |-> 2, dayofweek |-> 6, hour |-> 23]

\* every attribute present and well formed
TweetGood ==
    [id |-> IntVal(11), text |-> StrVal(<<"a", " ", "#", "b">>),
     created_at |-> [k |-> "datetime", t |-> MondayMorning],
     author_id |-> IntVal(7),
     public_metrics |-> [k |-> "dict", v |-> [retweet_count |-> 1, like_count |-> 2,
                                              reply_count |-> 1, quote_count |-> 0]],
     lang |-> StrVal(<<"e", "n">>),
     entities |-> [k |-> "dict", v |-> [hashtags |-> <<[tag |-> "b"]>>,
                                        mentions |-> <<>>]]]

\* optional attributes None: every default of the mapping is used, no error
TweetSparse ==
    [id |-> IntVal(12), text |-> StrVal(<<"a">>), created_at |-> None,
     author_id |-> None, public_metrics |-> None, entities |-> None]

\* created_at is a string (no isoformat) and a hashtag entity has no 'tag'
TweetMalformed ==
    [id |-> IntVal(13), text |-> StrVal(<<"!">>),
     created_at |-> StrVal(<<"x">>),
     author_id |-> IntVal(7),
     public_metrics |-> [k |-> "dict", v |-> [retweet_count |-> 5]],
     lang |-> None,
     entities |-> [k |-> "dict", v |-> [hashtags |-> <<[start |-> 0]>>]]]

\* an object with neither id nor text
TweetNoId == [author_id |-> IntVal(7), created_at |-> None]

RawItems == {TweetGood, TweetSparse, TweetMalformed, TweetNoId}

HasAttr(tweet, a) == a \in DOMAIN tweet

\* the columns of the dictionary _map_v2_tweet builds, in key order
TweetColumns ==
    <<"tweet_id", "text", "created_at", "author_id", "retweet_count", "like_count",
      "reply_count", "quote_count", "language", "hashtags", "mentions">>

\* tweet.public_metrics.get(key, 0) if hasattr(...) and tweet.public_metrics else 0
MetricOf(tweet, key) ==
    IF HasAttr(tweet, "public_metrics") /\ Truthy(tweet.public_metrics)
    THEN DictGet(tweet.public_metrics.v, key, 0)
    ELSE 0

\* [h[key] for h in (tweet.entities or {}).get(name, [])] if ... else []
EntityList(tweet, name, key) ==
    IF HasAttr(tweet, "entities") /\ Truthy(tweet.entities)
    THEN LET l == DictGet(tweet.entities.v, name, <<>>)
         IN  [i \in 1..Len(l) |-> l[i][key]]
    ELSE <<>>

\* does the try block of _map_v2_tweet raise on this item
MapRaises(tweet) ==
    \/ ~HasAttr(tweet, "id")
    \/ ~HasAttr(tweet, "text")
    \/ ~HasAttr(tweet, "created_at")
    \/ Truthy(tweet.created_at) /\ tweet.created_at.k # "datetime"
    \/ ~HasAttr(tweet, "author_id")
    \/ /\ HasAttr(tweet, "public_metrics")
       /\ Truthy(tweet.public_metrics)
       /\ tweet.public_metrics.k # "dict"
    \/ /\ HasAttr(tweet, "entities")
       /\ Truthy(tweet.entities)
       /\ \/ tweet.entities.k # "dict"
          \/ \E h \in Range(DictGet(tweet.entities.v, "hashtags", <<>>)) :
                "tag" \notin DOMAIN h
          \/ \E m \in Range(DictGet(tweet.entities.v, "mentions", <<>>)) :
                "username" \notin DOMAIN m

\* the dictionary of the try block
MapBody(tweet) ==
    [tweet_id |-> PyStr(tweet.id),
     text |-> tweet.text,
     created_at |-> IF Truthy(tweet.created_at)
                    THEN [k |-> "isoformat", t |-> tweet.created_at.t]
                    ELSE None,
     author_id |-> IF Truthy(tweet.author_id) THEN StrVal(PyStr(tweet.author_id))
                   ELSE None,
     retweet_count |-> MetricOf(tweet, "retweet_count"),
     like_count |-> MetricOf(tweet, "like_count"),
     reply_count |-> MetricOf(tweet, "reply_count"),
     quote_count |-> MetricOf(tweet, "quote_count"),
     language |-> IF HasAttr(tweet, "lang") THEN tweet.lang ELSE None,
     hashtags |-> EntityList(tweet, "hashtags", "tag"),
     mentions |-> EntityList(tweet, "mentions", "username")]

\* the except block with the identifier dropped
MapFallback_LosesId(tweet) ==
    [tweet_id |-> "unknown",
     text |-> IF HasAttr(tweet, "text") THEN tweet.text ELSE StrVal(<<>>),
     created_at |-> None, author_id |-> None, retweet_count |-> 0, like_count |-> 0,
     reply_count |-> 0, quote_count |-> 0, language |-> None, hashtags |-> <<>>,
     mentions |-> <<>>]

\* the dictionary of the except block
MapFallback(tweet) ==
    [tweet_id |-> IF HasAttr(tweet, "id") THEN PyStr(tweet.id) ELSE "unknown",
     text |-> IF HasAttr(tweet, "text") THEN tweet.text ELSE StrVal(<<>>),
     created_at |-> None,
     author_id |-> None,
     retweet_count |-> 0,
     like_count |-> 0,
     reply_count |-> 0,
     quote_count |-> 0,
     language |-> None,
     hashtags |-> <<>>,
     mentions |-> <<>>]

\* TwitterDataCollector._map_v2_tweet
map_v2_tweet(tweet) == IF MapRaises(tweet) THEN MapFallback(tweet) ELSE MapBody(tweet)


(***************************************************************************)
(* State.                                                                  *)
(***************************************************************************)
VARIABLES
    \* the configuration: topic -> its search_queries list
    TOPICS_CONFIG,
    \* the configuration: topic -> its collection settings (a topic may have none)
    COLLECTION_SETTINGS,
    \* the configuration: the toggles of the processing steps
    DATA_PROCESSING,
    \* the configuration: the export settings
    TABLEAU_EXPORT,
    \* the items the search capability can return
    item_pool,
    \* the entry point that runs
    entry,
    \* the frame of the running collect_tweets_for_topic call
    call,
    \* every search request issued, with its outcome, in order
    api_log,
    \* the topics the running for-loop has still to visit
    pending,
    \* collect_all_topics: all_data
    all_data,
    \* has the entry point returned
    returned,
    \* the position of the entry point in its own code
    stage,
    \* the table handed to the cleaner
    df_in,
    \* what clean_topic_data gave for df_in
    res_clean,
    \* what clean_topic_data gave for its own output
    res_again,
    \* what calculate_engagement_metrics gave for df_in
    df_metrics,
    \* collect_and_process_data: topic_arg and count_arg
    args,
    \* collect_and_process_data: the results dictionary
    results,
    \* the topics whose iteration has begun, in order
    attempted,
    \* the stages run so far, each with its topic and its outcome, in order
    stage_log

VARIABLES
    \* the mapping topic -> table handed to an all-topics stage or to a save
    topic_data,
    \* the order in which that mapping is iterated
    topic_order,
    \* the mapping the stage or the save returns
    stage_out,
    \* the outcome of the file writes of a save: name -> does the write succeed
    write_ok,
    \* the files written: path -> table
    file_system,
    \* the table prepare_tableau_export returns
    tableau_df

VARIABLES
    \* RealTimeCollector.running
    running,
    \* the worker threads: topic -> where the thread is in continuous_collect
    workers,
    \* where the main thread is in start_realtime_mode
    main_thread,
    \* topic -> the time.sleep calls of its worker: how many, and the last one
    sleeps

vars == <<TOPICS_CONFIG, COLLECTION_SETTINGS, DATA_PROCESSING, TABLEAU_EXPORT, item_pool,
          entry, call, api_log, pending, all_data, returned, stage, df_in, res_clean,
          res_again, df_metrics, args, results, attempted, stage_log, topic_data,
          topic_order, stage_out, write_ok, file_system, tableau_df, running, workers,
          main_thread, sleeps>>

config ==
    <<TOPICS_CONFIG, COLLECTION_SETTINGS, DATA_PROCESSING, TABLEAU_EXPORT, item_pool, entry>>

\* the state of the all-topics stages, the saves and the export
stages == <<topic_data, topic_order, stage_out, write_ok, file_system, tableau_df>>

\* the state of the real-time mode
realtime == <<running, workers, main_thread, sleeps>>

\* the state of the collector
collector == <<call, api_log, pending, all_data>>

\* the state of the cleaner's callers
cleaner == <<stage, df_in, res_clean, res_again, df_metrics>>

\* the state of collect_and_process_data
batch == <<args, results, attempted, stage_log>>

(***************************************************************************)
(* TwitterDataCollector.collect_tweets_for_topic                           *)
(***************************************************************************)
IdleCall == [pc |-> "idle"]

\* the frame that has returned df
Returned(frame, df) ==
    [pc |-> "returned", topic |-> frame.topic, count |-> frame.count, ret |-> df]

\* lines 161-173: the conversion of all_tweets to the DataFrame returned
ConvertTweets(topic, all_tweets) ==
    IF all_tweets # <<>>
    THEN LET tweet_dicts == [i \in 1..Len(all_tweets) |-> map_v2_tweet(all_tweets[i])]
             df == DataFrameOf(tweet_dicts, TweetColumns)
             withTopic == SetColumnTo(df, "topic", topic)
         IN  SetColumnTo(withTopic, "collection_timestamp", "now")
    ELSE EmptyDataFrame

\* the for-loop is left (break, or the queries are exhausted)
LeaveLoop(frame) == Returned(frame, ConvertTweets(frame.topic, frame.all_tweets))

\* the loop moves on to the next query, if any
NextQuery(frame) ==
    IF frame.i < Len(frame.queries)
    THEN [frame EXCEPT !.i = frame.i + 1]
    ELSE LeaveLoop(frame)

\* a response after which the loop goes on whatever was accumulated
OnResponse_NoEarlyStop(frame, data) ==
    NextQuery([frame EXCEPT !.all_tweets = frame.all_tweets \o data])

\* lines 144-152: a response came back
OnResponse(frame, data) ==
    LET extended == [frame EXCEPT !.all_tweets = frame.all_tweets \o data]
    IN  IF Len(extended.all_tweets) >= frame.count
        THEN LeaveLoop(extended)
        ELSE NextQuery(extended)

\* over quota handled like any other error: the loop goes on
OnTooManyRequests_Continues(frame) == NextQuery(frame)

\* lines 154-156: except TooManyRequests: break
OnTooManyRequests(frame) == LeaveLoop(frame)

\* an error that ends the loop
OnException_Breaks(frame) == LeaveLoop(frame)

\* lines 157-159: except Exception: continue
OnException(frame) == NextQuery(frame)

\* TwitterDataCollector.build_search_query: does it raise ValueError
UnknownTopic(topic) == topic \notin DOMAIN TOPICS_CONFIG

\* build_search_query giving an empty list for an unknown topic
build_search_query_EmptyForUnknown(topic) ==
    [exc |-> "none", queries |-> DictGet(TOPICS_CONFIG, topic, <<>>)]

\* TwitterDataCollector.build_search_query: the list it returns, or ValueError
build_search_query(topic) ==
    IF UnknownTopic(topic) THEN [exc |-> "ValueError"]
    ELSE [exc |-> "none", queries |-> TOPICS_CONFIG[topic]]

\* build_search_query called with a topic; the calls are kept
BuildQueryCall ==
    /\ entry = "build_search_query"
    /\ Len(stage_out) < MaxCalls
    /\ \E topic \in Topics \cup {"weather"} :
         stage_out' = Append(stage_out, [topic |-> topic,
                                         result |-> build_search_query(topic)])
    /\ UNCHANGED <<config, collector, cleaner, returned, batch, topic_data, topic_order,
                   write_ok, file_system, tableau_df, realtime>>

\* lines 123-129: the frame after the prologue of the call
StartCollect(topic, count) ==
    LET frame == [topic |-> topic, count |-> count]
    IN  IF UnknownTopic(topic)
        THEN Returned(frame, EmptyDataFrame)            \* ValueError, line 175
        ELSE LET queries == TOPICS_CONFIG[topic]
             IN  IF Len(queries) = 0
                 THEN Returned(frame, EmptyDataFrame)   \* ZeroDivisionError, line 175
                 ELSE [pc |-> "loop", topic |-> topic, count |-> count,
                       queries |-> queries,
                       per_query |-> Max(10, Min(tweets_per_request,
                                                 count \div Len(queries))),
                       i |-> 1, all_tweets |-> <<>>]

\* the sequences of at most n items of the pool
RECURSIVE Responses(_)
Responses(n) ==
    IF n = 0 THEN {<<>>}
    ELSE LET shorter == Responses(n - 1)
         IN  shorter \cup {Append(s, x) : s \in {t \in shorter : Len(t) = n - 1},
                                         x \in item_pool}

LogEntry(outcome, items) ==
    [topic |-> call.topic, q |-> call.i, outcome |-> outcome, items |-> items]

\* client.search_recent_tweets returns a response
SearchReturns ==
    /\ call.pc = "loop"
    /\ \E data \in Responses(Min(MaxFetch, call.per_query)) :
          /\ call' = OnResponse(call, data)
          /\ api_log' = Append(api_log, LogEntry("data", data))
    /\ UNCHANGED <<config, pending, all_data, returned, cleaner, batch, stages, realtime>>

\* client.search_recent_tweets raises TooManyRequests
SearchTooManyRequests ==
    /\ call.pc = "loop"
    /\ call' = OnTooManyRequests(call)
    /\ api_log' = Append(api_log, LogEntry("quota", <<>>))
    /\ UNCHANGED <<config, pending, all_data, returned, cleaner, batch, stages, realtime>>

\* client.search_recent_tweets raises another exception
SearchFails ==
    /\ call.pc = "loop"
    /\ call' = OnException(call)
    /\ api_log' = Append(api_log, LogEntry("error", <<>>))
    /\ UNCHANGED <<config, pending, all_data, returned, cleaner, batch, stages, realtime>>

Search == SearchReturns \/ SearchTooManyRequests \/ SearchFails

(***************************************************************************)
(* A direct call of collect_tweets_for_topic (scripts/testing.py).         *)
(***************************************************************************)
DirectCall ==
    /\ entry = "collect_tweets_for_topic"
    /\ call.pc = "idle"
    /\ ~returned
    /\ \E topic \in Topics, count \in 1..MaxCount :
          call' = StartCollect(topic, count)
    /\ UNCHANGED <<config, api_log, pending, all_data, returned, cleaner, batch, stages, realtime>>

DirectReturn ==
    /\ entry = "collect_tweets_for_topic"
    /\ call.pc = "returned"
    /\ ~returned
    /\ returned' = TRUE
    /\ UNCHANGED <<config, call, api_log, pending, all_data, cleaner, batch, stages, realtime>>

(***************************************************************************)
(* TwitterDataCollector.collect_all_topics                                 *)
(***************************************************************************)
\* the handler that records nothing for the failed topic
OnTopicException_NoEntry(data, topic) == data

\* lines 230-232: except Exception: all_data[topic] = pd.DataFrame()
OnTopicException(data, topic) == (topic :> EmptyDataFrame) @@ data

\* line 225: all_data[topic] = df
StoreTopic(data, topic, df) == (topic :> df) @@ data

CollectAllIterate ==
    /\ entry = "collect_all_topics"
    /\ call.pc = "idle"
    /\ pending # <<>>
    /\ LET topic == Head(pending)
       IN  IF topic \in DOMAIN COLLECTION_SETTINGS
           THEN /\ call' = StartCollect(topic,
                             COLLECTION_SETTINGS[topic].tweets_per_collection)
                /\ UNCHANGED <<pending, all_data>>
           ELSE /\ all_data' = OnTopicException(all_data, topic)   \* KeyError
                /\ pending' = Tail(pending)
                /\ UNCHANGED call
    /\ UNCHANGED <<config, api_log, returned, cleaner, batch, stages, realtime>>

CollectAllStore ==
    /\ entry = "collect_all_topics"
    /\ call.pc = "returned"
    /\ all_data' = StoreTopic(all_data, call.topic, call.ret)
    /\ pending' = Tail(pending)
    /\ call' = IdleCall
    /\ UNCHANGED <<config, api_log, returned, cleaner, batch, stages, realtime>>

CollectAllReturn ==
    /\ entry = "collect_all_topics"
    /\ call.pc = "idle"
    /\ pending = <<>>
    /\ ~returned
    /\ returned' = TRUE
    /\ UNCHANGED <<config, call, api_log, pending, all_data, cleaner, batch, stages, realtime>>

(***************************************************************************)
(* Results of calls that can raise, and floating point numbers (kept exact *)
(* as reduced fractions; d = 0 is inf or nan).                             *)
(***************************************************************************)
Ok(df) == [exc |-> "none", df |-> df]

Raise(name) == [exc |-> name]

NoResult == [exc |-> "not called"]

\* a DataFrame as a Python object
Frame(df) == [k |-> "DataFrame", v |-> df]

Abs(n) == IF n < 0 THEN -n ELSE n

RECURSIVE Gcd(_, _)
Gcd(a, b) == IF b = 0 THEN a ELSE Gcd(b, a % b)

\* the float n / d
Ratio(n, d) ==
    IF d = 0
    THEN [n |-> IF n = 0 THEN 0 ELSE IF n > 0 THEN 1 ELSE -1, d |-> 0]
    ELSE LET g == Gcd(Abs(n), Abs(d))
         IN  [n |-> (IF d < 0 THEN -n ELSE n) \div g, d |-> Abs(d) \div g]

\* a < b for floats that are neither inf nor nan
Less(a, b) == a.n * b.d < b.n * a.d

\* Series.max()
SeriesMax(values) ==
    IF values = <<>> THEN Ratio(0, 0)
    ELSE CHOOSE m \in Range(values) : \A v \in Range(values) : ~Less(m, v)

\* df[col] as a list
Column(df, col) == [i \in 1..Len(df.rows) |-> df.rows[i].cells[col]]

HasColumns(df, cols) == cols \subseteq Range(df.columns)

RECURSIVE MaskRows(_, _)
MaskRows(rows, mask) ==
    IF rows = <<>> THEN <<>>
    ELSE (IF Head(mask) THEN <<Head(rows)>> ELSE <<>>)
         \o MaskRows(Tail(rows), Tail(mask))

\* df[mask]: the rows whose mask is true, index labels kept
BoolIndex(df, mask) == [columns |-> df.columns, rows |-> MaskRows(df.rows, mask)]

(***************************************************************************)
(* TwitterDataCleaner: text.  A text is a list of symbols: letters, the    *)
(* space, '#', '@', '!' (any other character), and "http" / "www" for      *)
(* these letters in a row.                                                 *)
(***************************************************************************)
UrlPrefixes == {"http", "www"}

\* \w
WordChars == {"a", "b", "A", "http", "www"}

RECURSIVE DropNonSpace(_)
DropNonSpace(s) == IF s = <<>> \/ Head(s) = " " THEN s ELSE DropNonSpace(Tail(s))

\* re.sub(r'http\S+|www\S+|https\S+', '', text)
RECURSIVE StripUrls(_)
StripUrls(s) ==
    IF s = <<>> THEN <<>>
    ELSE IF Head(s) \in UrlPrefixes /\ Len(s) >= 2 /\ s[2] # " "
         THEN StripUrls(DropNonSpace(Tail(s)))
         ELSE <<Head(s)>> \o StripUrls(Tail(s))

\* re.sub(r'[^\w\s#@]', '', text)
StripSpecial(s) == SelectSeq(s, LAMBDA c : c \in WordChars \cup {" ", "#", "@"})

\* text.split()
RECURSIVE SplitWords(_, _)
SplitWords(s, cur) ==
    IF s = <<>> THEN (IF cur = <<>> THEN <<>> ELSE <<cur>>)
    ELSE IF Head(s) = " "
         THEN (IF cur = <<>> THEN <<>> ELSE <<cur>>) \o SplitWords(Tail(s), <<>>)
         ELSE SplitWords(Tail(s), Append(cur, Head(s)))

\* ' '.join(words)
RECURSIVE JoinWords(_)
JoinWords(words) ==
    IF words = <<>> THEN <<>>
    ELSE IF Len(words) = 1 THEN words[1]
         ELSE words[1] \o <<" ">> \o JoinWords(Tail(words))

\* text.strip()
RECURSIVE Strip(_)
Strip(s) ==
    IF s = <<>> THEN s
    ELSE IF Head(s) = " " THEN Strip(Tail(s))
         ELSE IF s[Len(s)] = " " THEN Strip(SubSeq(s, 1, Len(s) - 1))
              ELSE s

\* TwitterDataCleaner.clean_text
clean_text(text) ==
    IF text.k = "none" THEN <<>>
    ELSE Strip(JoinWords(SplitWords(StripSpecial(StripUrls(text.v)), <<>>)))

RECURSIVE WordRun(_)
WordRun(s) ==
    IF s = <<>> \/ Head(s) \notin WordChars THEN <<>>
    ELSE <<Head(s)>> \o WordRun(Tail(s))

\* tag.lower()
Lower(tag) == [i \in 1..Len(tag) |-> IF tag[i] = "A" THEN "a" ELSE tag[i]]

\* re.findall(r'#\w+', text)
RECURSIVE FindHashtags(_)
FindHashtags(s) ==
    IF s = <<>> THEN <<>>
    ELSE IF Head(s) = "#" /\ WordRun(Tail(s)) # <<>>
         THEN LET run == WordRun(Tail(s))
              IN  <<(<<"#">> \o run)>> \o FindHashtags(SubSeq(s, Len(run) + 2, Len(s)))
         ELSE FindHashtags(Tail(s))

\* TwitterDataCleaner.extract_hashtags
extract_hashtags(text) ==
    IF text.k = "none" THEN <<>>
    ELSE LET hashtags == FindHashtags(text.v)
         IN  [i \in 1..Len(hashtags) |-> Lower(hashtags[i])]

(***************************************************************************)
(* TwitterDataCleaner.calculate_engagement_metrics                         *)
(***************************************************************************)
\* the columns calculate_engagement_metrics reads
MetricColumns ==
    {"retweet_count", "favorite_count", "quote_count", "reply_count", "user_followers"}

\* lines 91-96
TotalEngagement(c) ==
    c.retweet_count + c.favorite_count + c.quote_count + c.reply_count

\* the rate computed without the replace(0, 1) of the follower count
EngagementRate_NoReplace(total, followers) == Ratio(total * 100, followers)

\* lines 99-102: total_engagement / user_followers.replace(0, 1) * 100
EngagementRate(total, followers) ==
    Ratio(total * 100, IF followers = 0 THEN 1 ELSE followers)

\* lines 105-110: the weighted sum, the reply weight 1.5 written as 3 / 2
ViralityScore(c) ==
    Ratio(c.retweet_count * 3 * 2 + c.favorite_count * 1 * 2
          + c.quote_count * 2 * 2 + c.reply_count * 3, 2)

\* lines 113-118
NormalizedVirality(scores) ==
    LET top == SeriesMax(scores)
    IN  IF top.n > 0 /\ top.d # 0
        THEN [i \in 1..Len(scores) |->
                 Ratio(scores[i].n * top.d * 100, scores[i].d * top.n)]
        ELSE [i \in 1..Len(scores) |-> Ratio(0, 1)]

calculate_engagement_metrics(df) ==
    IF ~HasColumns(df, MetricColumns) THEN Raise("KeyError")
    ELSE LET n == Len(df.rows)
             total == [i \in 1..n |-> TotalEngagement(df.rows[i].cells)]
             rate == [i \in 1..n |->
                         EngagementRate(total[i], df.rows[i].cells.user_followers)]
             score == [i \in 1..n |-> ViralityScore(df.rows[i].cells)]
             d1 == SetColumn(df, "total_engagement", total)
             d2 == SetColumn(d1, "engagement_rate", rate)
             d3 == SetColumn(d2, "virality_score", score)
         IN  Ok(SetColumn(d3, "virality_score_normalized", NormalizedVirality(score)))

(***************************************************************************)
(* TwitterDataCleaner.add_time_features                                    *)
(***************************************************************************)
NaT == [k |-> "NaT"]

NaN == [k |-> "nan"]

DayNames ==
    <<"Monday", "Tuesday", "Wednesday", "Thursday", "Friday", "Saturday", "Sunday">>

\* can pd.to_datetime parse the value
Parses(x) == x.k \in {"none", "isoformat", "datetime", "Timestamp", "NaT"}

\* pd.to_datetime of one value
ToDatetime(x) ==
    IF x.k \in {"none", "NaT"} THEN NaT ELSE [k |-> "Timestamp", t |-> x.t]

\* lines 157-164 with 5 < hour for 5 <= hour
categorize_time_period_LateMorning(hour) ==
    IF 5 < hour /\ hour < 12 THEN "Morning"
    ELSE IF 12 <= hour /\ hour < 17 THEN "Afternoon"
    ELSE IF 17 <= hour /\ hour < 21 THEN "Evening"
    ELSE "Night"

\* TwitterDataCleaner.categorize_time_period
categorize_time_period(hour) ==
    IF 5 <= hour /\ hour < 12 THEN "Morning"
    ELSE IF 12 <= hour /\ hour < 17 THEN "Afternoon"
    ELSE IF 17 <= hour /\ hour < 21 THEN "Evening"
    ELSE "Night"

\* a component of a timestamp, nan for NaT
DtField(ts, name) == IF ts.k = "NaT" THEN NaN ELSE IntVal(ts.t[name])

add_time_features(df) ==
    IF ~HasColumns(df, {"created_at"}) THEN Raise("KeyError")
    ELSE IF \E i \in 1..Len(df.rows) : ~Parses(df.rows[i].cells.created_at)
    THEN Raise("ValueError")
    ELSE LET n == Len(df.rows)
             ts == [i \in 1..n |-> ToDatetime(df.rows[i].cells.created_at)]
             d1 == SetColumn(df, "created_at", ts)
             d2 == SetColumn(d1, "hour", [i \in 1..n |-> DtField(ts[i], "hour")])
             d3 == SetColumn(d2, "day_of_week",
                             [i \in 1..n |-> DtField(ts[i], "dayofweek")])
             d4 == SetColumn(d3, "day_name",
                             [i \in 1..n |-> IF ts[i].k = "NaT" THEN NaN
                                             ELSE [k |-> "str",
                                                   v |-> DayNames[ts[i].t.dayofweek + 1]]])
             d5 == SetColumn(d4, "month", [i \in 1..n |-> DtField(ts[i], "month")])
             d6 == SetColumn(d5, "year", [i \in 1..n |-> DtField(ts[i], "year")])
             d7 == SetColumn(d6, "date",
                             [i \in 1..n |-> IF ts[i].k = "NaT" THEN NaT
                                             ELSE [k |-> "date", year |-> ts[i].t.year,
                                                   month |-> ts[i].t.month,
                                                   day |-> ts[i].t.day]])
         IN  Ok(SetColumn(d7, "time_period",
                          [i \in 1..n |-> IF ts[i].k = "NaT" THEN "Night"
                                          ELSE categorize_time_period(ts[i].t.hour)]))

\* categorize_time_period called with an hour of the day; the calls are kept
CategorizeCall ==
    /\ entry = "categorize_time_period"
    /\ Len(stage_out) < MaxCalls
    /\ \E hour \in 0..23 :
         stage_out' = Append(stage_out, [hour |-> hour,
                                         time_period |-> categorize_time_period(hour)])
    /\ UNCHANGED <<config, collector, cleaner, returned, batch, topic_data, topic_order,
                   write_ok, file_system, tableau_df, realtime>>

(***************************************************************************)
(* TwitterDataCleaner.clean_topic_data                                     *)
(***************************************************************************)
\* drop_duplicates keeping the last occurrence
drop_duplicates_KeepLast(df) ==
    BoolIndex(df, [i \in 1..Len(df.rows) |->
                      \A j \in (i + 1)..Len(df.rows) :
                          df.rows[j].cells.tweet_id # df.rows[i].cells.tweet_id])

\* df.drop_duplicates(subset=['tweet_id']): the first occurrence is kept
drop_duplicates(df) ==
    BoolIndex(df, [i \in 1..Len(df.rows) |->
                      \A j \in 1..(i - 1) :
                          df.rows[j].cells.tweet_id # df.rows[i].cells.tweet_id])

\* lines 183-185
DedupStep(r) ==
    IF r.exc # "none" \/ ~DATA_PROCESSING.remove_duplicates THEN r
    ELSE IF ~HasColumns(r.df, {"tweet_id"}) THEN Raise("KeyError")
    ELSE Ok(drop_duplicates(r.df))

\* lines 187-189
TextStep(r) ==
    IF r.exc # "none" \/ ~DATA_PROCESSING.clean_text THEN r
    ELSE IF ~HasColumns(r.df, {"text"}) THEN Raise("KeyError")
    ELSE Ok(SetColumn(r.df, "text_cleaned",
                      [i \in 1..Len(r.df.rows) |-> clean_text(r.df.rows[i].cells.text)]))

\* lines 191-193
HashtagStep(r) ==
    IF r.exc # "none" \/ ~DATA_PROCESSING.extract_hashtags THEN r
    ELSE IF ~HasColumns(r.df, {"text"}) THEN Raise("KeyError")
    ELSE Ok(SetColumn(r.df, "hashtags_extracted",
                      [i \in 1..Len(r.df.rows) |->
                          extract_hashtags(r.df.rows[i].cells.text)]))

\* lines 195-197
EngagementStep(r) ==
    IF r.exc # "none" \/ ~DATA_PROCESSING.calculate_engagement THEN r
    ELSE calculate_engagement_metrics(r.df)

\* lines 199-200
TimeStep(r) == IF r.exc # "none" THEN r ELSE add_time_features(r.df)

\* the filter with the upper bound of the follower count included
FilterStep_Inclusive(r) ==
    IF r.exc # "none" THEN r
    ELSE Ok(BoolIndex(r.df, [i \in 1..Len(r.df.rows) |->
                                /\ Len(r.df.rows[i].cells.text_cleaned) > 0
                                /\ r.df.rows[i].cells.user_followers > 0
                                /\ r.df.rows[i].cells.user_followers <= 1000000]))

\* lines 202-207: the rows with empty cleaned text and the bots are removed
FilterStep(r) ==
    IF r.exc # "none" THEN r
    ELSE IF ~HasColumns(r.df, {"text_cleaned"}) THEN Raise("KeyError")
    ELSE LET d1 == BoolIndex(r.df, [i \in 1..Len(r.df.rows) |->
                                       Len(r.df.rows[i].cells.text_cleaned) > 0])
         IN  IF ~HasColumns(d1, {"user_followers"}) THEN Raise("KeyError")
             ELSE LET d2 == BoolIndex(d1, [i \in 1..Len(d1.rows) |->
                                              d1.rows[i].cells.user_followers > 0])
                  IN  Ok(BoolIndex(d2, [i \in 1..Len(d2.rows) |->
                                           d2.rows[i].cells.user_followers < 1000000]))

\* clean_topic_data(df, topic), the arguments as Python objects
clean_topic_data(df, topic) ==
    IF df.k # "DataFrame" THEN Raise("AttributeError")      \* df.empty, line 177
    ELSE IF IsEmpty(df.v) THEN Ok(df.v)
    ELSE FilterStep(TimeStep(EngagementStep(HashtagStep(TextStep(DedupStep(Ok(df.v)))))))

(***************************************************************************)
(* Direct calls of the cleaner on a table.                                 *)
(***************************************************************************)
CleanCall ==
    /\ entry = "clean_topic_data"
    /\ stage = "start"
    /\ res_clean' = clean_topic_data(Frame(df_in), StrVal("sports"))
    /\ stage' = "cleaned"
    /\ UNCHANGED <<config, collector, returned, df_in, res_again, df_metrics, batch,
            stages, realtime>>

\* the output of the first call is cleaned again
CleanAgainCall ==
    /\ entry = "clean_topic_data"
    /\ stage = "cleaned"
    /\ res_clean.exc = "none"
    /\ res_again' = clean_topic_data(Frame(res_clean.df), StrVal("sports"))
    /\ stage' = "recleaned"
    /\ UNCHANGED <<config, collector, returned, df_in, res_clean, df_metrics, batch,
            stages, realtime>>

\* calculate_engagement_metrics writes its columns into the table it is given
MetricsCall ==
    /\ entry = "clean_topic_data"
    /\ stage = "start"
    /\ LET r == calculate_engagement_metrics(df_in)
       IN  /\ r.exc = "none"
           /\ df_metrics' = r.df
           /\ df_in' = r.df
    /\ stage' = "metrics"
    /\ UNCHANGED <<config, collector, returned, res_clean, res_again, batch, stages, realtime>>

(***************************************************************************)
(* TwitterDataProcessor (scripts/data_processor.py).                       *)
(***************************************************************************)
\* config/setting.py
DefaultExport ==
    [include_sentiment |-> TRUE, include_engagement_metrics |-> TRUE,
     include_time_analysis |-> TRUE, max_records_per_file |-> 10000]

\* re.sub(r"@\w+", "", text)
RECURSIVE StripMentions(_)
StripMentions(s) ==
    IF s = <<>> THEN <<>>
    ELSE IF Head(s) = "@" /\ WordRun(Tail(s)) # <<>>
         THEN StripMentions(SubSeq(s, Len(WordRun(Tail(s))) + 2, Len(s)))
         ELSE <<Head(s)>> \o StripMentions(Tail(s))

\* re.sub(r"\s+", " ", text)
RECURSIVE CollapseSpaces(_)
CollapseSpaces(s) ==
    IF s = <<>> THEN <<>>
    ELSE IF Head(s) = " " /\ Len(s) >= 2 /\ s[2] = " " THEN CollapseSpaces(Tail(s))
         ELSE <<Head(s)>> \o CollapseSpaces(Tail(s))

\* TwitterDataProcessor.clean_text
processor_clean_text(text) ==
    IF text.k # "str" THEN <<>>
    ELSE Strip(SelectSeq(CollapseSpaces(StripMentions(StripUrls(text.v))),
                         LAMBDA c : c \in WordChars \cup {" ", "!"}))

\* row.get(name, 0)
RowGet(c, name) == IF name \in DOMAIN c THEN c[name] ELSE 0

\* TwitterDataProcessor.calculate_engagement_score
calculate_engagement_score(c) ==
    Ratio(RowGet(c, "retweet_count") + RowGet(c, "like_count")
          + RowGet(c, "reply_count") + RowGet(c, "quote_count"), 1)

\* TextBlob(text).sentiment.polarity: the mean score of the words the lexicon
\* knows, here "a" (0.5), "A" (0.1) and "b" (-0.5), in tenths
WordScore(c) == IF c = "a" THEN 5 ELSE IF c = "A" THEN 1 ELSE -5

TextBlobPolarity(s) ==
    LET known == SelectSeq(s, LAMBDA c : c \in {"a", "A", "b"})
        sum[i \in 0..Len(known)] == IF i = 0 THEN 0 ELSE sum[i - 1] + WordScore(known[i])
    IN  IF known = <<>> THEN Ratio(0, 1) ELSE Ratio(sum[Len(known)], 10 * Len(known))

\* TextBlob(text).sentiment.subjectivity
TextBlobSubjectivity(s) ==
    IF \E i \in 1..Len(s) : s[i] \in {"a", "A", "b"} THEN Ratio(1, 2) ELSE Ratio(0, 1)

\* lines 91-96 with >= and <= for > and <
SentimentLabel_Inclusive(polarity) ==
    IF ~Less(polarity, Ratio(1, 10)) THEN "positive"
    ELSE IF ~Less(Ratio(-1, 10), polarity) THEN "negative"
    ELSE "neutral"

\* lines 91-96: the label of a polarity
SentimentLabel(polarity) ==
    IF Less(Ratio(1, 10), polarity) THEN "positive"
    ELSE IF Less(polarity, Ratio(-1, 10)) THEN "negative"
    ELSE "neutral"

\* TwitterDataProcessor.analyze_sentiment
analyze_sentiment(text) ==
    IF text.k # "str" \/ text.v = <<>>
    THEN [polarity |-> Ratio(0, 1), subjectivity |-> Ratio(0, 1),
          sentiment_label |-> "neutral"]
    ELSE [polarity |-> TextBlobPolarity(text.v),
          subjectivity |-> TextBlobSubjectivity(text.v),
          sentiment_label |-> SentimentLabel(TextBlobPolarity(text.v))]

\* sentiment_analyzer.py lines 27-29: the label of a polarity
AnalyzerLabel(polarity) ==
    IF Less(Ratio(1, 10), polarity) THEN "positive"
    ELSE IF Less(polarity, Ratio(-1, 10)) THEN "negative"
    ELSE "neutral"

\* TwitterSentimentAnalyzer.analyze_sentiment: (polarity, label)
analyzer_analyze_sentiment(text) ==
    IF text.k # "str" \/ Strip(text.v) = <<>>
    THEN [polarity |-> Ratio(0, 1), sentiment_label |-> "neutral"]
    ELSE [polarity |-> TextBlobPolarity(text.v),
          sentiment_label |-> AnalyzerLabel(TextBlobPolarity(text.v))]

\* both scorers called with one text
SentimentCall ==
    /\ entry = "analyze_sentiment"
    /\ ~returned
    /\ stage_out' = [processor |-> analyze_sentiment(args.text),
                     analyzer |-> analyzer_analyze_sentiment(args.text)]
    /\ stage' = "returned"
    /\ returned' = TRUE
    /\ UNCHANGED <<config, collector, df_in, res_clean, res_again, df_metrics, batch,
                   topic_data, topic_order, write_ok, file_system, tableau_df, realtime>>

MonthNames ==
    <<"January", "February", "March", "April", "May", "June", "July", "August",
      "September", "October", "November", "December">>

\* TwitterDataProcessor.extract_time_features
extract_time_features(df) ==
    IF ~HasColumns(df, {"created_at"}) THEN df
    ELSE IF \E i \in 1..Len(df.rows) : ~Parses(df.rows[i].cells.created_at)
    THEN df                                   \* the exception is logged, line 121
    ELSE LET n == Len(df.rows)
             ts == [i \in 1..n |-> ToDatetime(df.rows[i].cells.created_at)]
             d1 == SetColumn(df, "created_at", ts)
             d2 == SetColumn(d1, "hour_of_day", [i \in 1..n |-> DtField(ts[i], "hour")])
             d3 == SetColumn(d2, "day_of_week",
                             [i \in 1..n |-> IF ts[i].k = "NaT" THEN NaN
                                             ELSE [k |-> "str",
                                                   v |-> DayNames[ts[i].t.dayofweek + 1]]])
             d4 == SetColumn(d3, "month",
                             [i \in 1..n |-> IF ts[i].k = "NaT" THEN NaN
                                             ELSE [k |-> "str",
                                                   v |-> MonthNames[ts[i].t.month]]])
         IN  SetColumn(d4, "date",
                       [i \in 1..n |-> IF ts[i].k = "NaT" THEN NaT
                                       ELSE [k |-> "date", year |-> ts[i].t.year,
                                             month |-> ts[i].t.month,
                                             day |-> ts[i].t.day]])

\* lines 135-137
ProcessTextStep(r) ==
    IF r.exc # "none" \/ ~DATA_PROCESSING.clean_text THEN r
    ELSE IF ~HasColumns(r.df, {"text"}) THEN Raise("KeyError")
    ELSE Ok(SetColumn(r.df, "cleaned_text",
                      [i \in 1..Len(r.df.rows) |->
                          processor_clean_text(r.df.rows[i].cells.text)]))

\* lines 139-141
ProcessEngagementStep(r) ==
    IF r.exc # "none" \/ ~DATA_PROCESSING.calculate_engagement THEN r
    ELSE Ok(SetColumn(r.df, "engagement_score",
                      [i \in 1..Len(r.df.rows) |->
                          calculate_engagement_score(r.df.rows[i].cells)]))

\* lines 143-150
ProcessSentimentStep(r) ==
    IF \/ r.exc # "none"
       \/ ~(DATA_PROCESSING.sentiment_analysis /\ TABLEAU_EXPORT.include_sentiment)
    THEN r
    ELSE IF ~HasColumns(r.df, {"text"}) THEN Raise("KeyError")
    ELSE LET n == Len(r.df.rows)
             sentiment_results == [i \in 1..n |-> analyze_sentiment(r.df.rows[i].cells.text)]
             d1 == SetColumn(r.df, "sentiment_polarity",
                             [i \in 1..n |-> sentiment_results[i].polarity])
             d2 == SetColumn(d1, "sentiment_subjectivity",
                             [i \in 1..n |-> sentiment_results[i].subjectivity])
         IN  Ok(SetColumn(d2, "sentiment_label",
                          [i \in 1..n |-> sentiment_results[i].sentiment_label]))

\* lines 152-158
ProcessTimeStep(r, topic) ==
    IF r.exc # "none" THEN r
    ELSE LET d1 == IF TABLEAU_EXPORT.include_time_analysis
                   THEN extract_time_features(r.df) ELSE r.df
         IN  Ok(SetColumnTo(SetColumnTo(d1, "processed_at", "now"), "topic", topic))

\* TwitterDataProcessor.process_topic_data
process_topic_data(df, topic) ==
    IF IsEmpty(df) THEN Ok(df)
    ELSE ProcessTimeStep(ProcessSentimentStep(ProcessEngagementStep(
             ProcessTextStep(Ok(df)))), topic)

\* main.py lines 70-76: the cleaned table is handed to process_topic_data
ProcessCleanedCall ==
    /\ entry = "clean_topic_data"
    /\ stage = "cleaned"
    /\ res_clean.exc = "none"
    /\ stage_out' = process_topic_data(res_clean.df, "sports")
    /\ stage' = "processed"
    /\ UNCHANGED <<config, collector, returned, df_in, res_clean, res_again, df_metrics,
                   batch, topic_data, topic_order, write_ok, file_system, tableau_df,
                   realtime>>

\* lines 182-192
tableau_columns ==
    <<"tweet_id", "text", "cleaned_text", "created_at", "topic", "username",
      "user_followers", "user_verified", "retweet_count", "like_count", "reply_count",
      "quote_count", "engagement_score", "hashtags", "mentions", "hour_of_day",
      "day_of_week", "month", "date">>
    \o (IF TABLEAU_EXPORT.include_sentiment
        THEN <<"sentiment_polarity", "sentiment_subjectivity", "sentiment_label">>
        ELSE <<>>)

\* the export with the last max_records rows kept
prepare_tableau_export_Tail(df) ==
    IF IsEmpty(df) THEN df
    ELSE LET available_columns ==
                 SelectSeq(tableau_columns, LAMBDA c : c \in Range(df.columns))
             first == Max(Len(df.rows) - TABLEAU_EXPORT.max_records_per_file, 0)
         IN  [columns |-> available_columns,
              rows |-> [i \in 1..(Len(df.rows) - first) |->
                          [index |-> df.rows[first + i].index,
                           cells |-> [c \in Range(available_columns) |->
                                         df.rows[first + i].cells[c]]]]]

\* the export with the columns in the order of the input
prepare_tableau_export_InputOrder(df) ==
    IF IsEmpty(df) THEN df
    ELSE LET available_columns ==
                 SelectSeq(df.columns, LAMBDA c : c \in Range(tableau_columns))
         IN  [columns |-> available_columns,
              rows |-> [i \in 1..Min(Len(df.rows), TABLEAU_EXPORT.max_records_per_file) |->
                          [index |-> df.rows[i].index,
                           cells |-> [c \in Range(available_columns) |->
                                         df.rows[i].cells[c]]]]]

\* TwitterDataProcessor.prepare_tableau_export
prepare_tableau_export(df) ==
    IF IsEmpty(df) THEN df
    ELSE LET available_columns ==
                 SelectSeq(tableau_columns, LAMBDA c : c \in Range(df.columns))
             max_records == TABLEAU_EXPORT.max_records_per_file
         IN  [columns |-> available_columns,
              rows |-> [i \in 1..Min(Len(df.rows), max_records) |->
                          [index |-> df.rows[i].index,
                           cells |-> [c \in Range(available_columns) |->
                                         df.rows[i].cells[c]]]]]

(***************************************************************************)
(* clean_all_topics and process_all_topics: one step per topic of the      *)
(* mapping, in its iteration order.                                        *)
(***************************************************************************)
\* the failed topic gets no entry
OnCleanException_NoEntry(cleaned_data, topic) == cleaned_data

\* data_cleaner.py lines 233-235
OnCleanException(cleaned_data, topic) == (topic :> EmptyDataFrame) @@ cleaned_data

\* data_processor.py lines 170-172
OnProcessException(processed_data, topic) == (topic :> EmptyDataFrame) @@ processed_data

\* data_cleaner.py lines 228-235
CleanAllStep ==
    /\ entry = "clean_all_topics"
    /\ pending # <<>>
    /\ LET topic == Head(pending)
           r == clean_topic_data(Frame(topic_data[topic]), StrVal(topic))
       IN  stage_out' = IF r.exc = "none" THEN (topic :> r.df) @@ stage_out
                        ELSE OnCleanException(stage_out, topic)
    /\ pending' = Tail(pending)
    /\ UNCHANGED <<config, call, api_log, all_data, returned, cleaner, batch, topic_data,
                   topic_order, write_ok, file_system, tableau_df, realtime>>

\* data_processor.py lines 167-172
ProcessAllStep ==
    /\ entry = "process_all_topics"
    /\ pending # <<>>
    /\ LET topic == Head(pending)
           r == process_topic_data(topic_data[topic], topic)
       IN  stage_out' = IF r.exc = "none" THEN (topic :> r.df) @@ stage_out
                        ELSE OnProcessException(stage_out, topic)
    /\ pending' = Tail(pending)
    /\ UNCHANGED <<config, call, api_log, all_data, returned, cleaner, batch, topic_data,
                   topic_order, write_ok, file_system, tableau_df, realtime>>

\* data_cleaner.py line 237, data_processor.py line 174
AllTopicsReturn ==
    /\ entry \in {"clean_all_topics", "process_all_topics"}
    /\ pending = <<>>
    /\ ~returned
    /\ returned' = TRUE
    /\ UNCHANGED <<config, collector, cleaner, batch, stages, realtime>>

(***************************************************************************)
(* Files.  A write either succeeds or fails with an I/O error; ok tells    *)
(* which for each topic.                                                   *)
(***************************************************************************)
\* datetime.now().strftime(FILE_NAMING['timestamp_format'])
Timestamp == "20250106_090000"

RawPath(topic) ==
    [dir |-> <<"data", "raw", topic>>, file |-> <<"raw_tweets_", topic, Timestamp>>]

CleanedPath(topic) ==
    [dir |-> <<"data", "cleaned", topic>>,
     file |-> <<"cleaned_tweets_", topic, Timestamp>>]

TableauPath(name) ==
    [dir |-> <<"tableau_data">>, file |-> <<name, "_dashboard_", Timestamp>>]

\* save_raw_data without the df.empty guard of lines 243-245
save_raw_data_SavesEmpty(data, ok) ==
    [t \in {t \in DOMAIN data : ok[t]} |-> RawPath(t)]

\* TwitterDataCollector.save_raw_data: the paths it returns
save_raw_data(data, ok) ==
    [t \in {t \in DOMAIN data : ~IsEmpty(data[t]) /\ ok[t]} |-> RawPath(t)]

\* TwitterDataCleaner.save_cleaned_data: an I/O error is not caught
save_cleaned_data(data, ok) ==
    IF \E t \in DOMAIN data : ~IsEmpty(data[t]) /\ ~ok[t]
    THEN [exc |-> "OSError"]
    ELSE [exc |-> "none",
          paths |-> [t \in {t \in DOMAIN data : ~IsEmpty(data[t])} |-> CleanedPath(t)]]

\* TwitterDataProcessor.save_tableau_data: the paths it returns
save_tableau_data(data, ok) ==
    LET saved == {t \in DOMAIN data : ~IsEmpty(data[t]) /\ ok[t]}
        files == [t \in saved |-> TableauPath(t)]
    IN  IF (\E t \in DOMAIN data : ~IsEmpty(data[t])) /\ ok["combined"]
        THEN ("combined" :> TableauPath("combined")) @@ files
        ELSE files

\* the topics of a mapping in its iteration order that hold a table with rows
NonEmptyTopics(tables, topics) == SelectSeq(topics, LAMBDA t : ~IsEmpty(tables[t]))

\* the columns of pd.concat(tables): those of the first table, then the new
\* ones of each later table
RECURSIVE ConcatColumns(_)
ConcatColumns(tables) ==
    IF tables = <<>> THEN <<>>
    ELSE LET before == ConcatColumns(SubSeq(tables, 1, Len(tables) - 1))
         IN  before \o SelectSeq(tables[Len(tables)].columns,
                                 LAMBDA c : c \notin Range(before))

RECURSIVE ConcatRows(_)
ConcatRows(tables) ==
    IF tables = <<>> THEN <<>> ELSE Head(tables).rows \o ConcatRows(Tail(tables))

\* pd.concat(tables, ignore_index=True): a cell of a column the row's table
\* does not have is nan
PdConcat(tables) ==
    LET columns == ConcatColumns(tables)
        rows == ConcatRows(tables)
    IN  [columns |-> columns,
         rows |-> [i \in 1..Len(rows) |->
                     [index |-> i - 1,
                      cells |-> [c \in Range(columns) |->
                                    IF c \in DOMAIN rows[i].cells THEN rows[i].cells[c]
                                    ELSE NaN]]]]

\* the combined table with the topics in the order of the configuration
CombinedTable_ConfigOrder(processed_data, topics) ==
    LET kept == NonEmptyTopics(processed_data,
                               SelectSeq(TopicOrder, LAMBDA t : t \in Range(topics)))
    IN  PdConcat([i \in 1..Len(kept) |-> prepare_tableau_export(processed_data[kept[i]])])

\* data_processor.py lines 237-245: the table of the combined file
CombinedTable(processed_data, topics) ==
    LET kept == NonEmptyTopics(processed_data, topics)
    IN  PdConcat([i \in 1..Len(kept) |-> prepare_tableau_export(processed_data[kept[i]])])

\* the files a save writes, as path -> table, from topic -> path and topic -> table
Written(paths, tables) ==
    [p \in {paths[t] : t \in DOMAIN paths} |->
        tables[CHOOSE t \in DOMAIN paths : paths[t] = p]]

\* data_collector.py lines 242-265: the files save_raw_data writes
RawWrites(tables, ok) == Written(save_raw_data(tables, ok), tables)

\* data_cleaner.py lines 252-268: the files save_cleaned_data writes, up to
\* the first write that fails
CleanedWrites(cleaned_data, topics, ok) ==
    LET kept == NonEmptyTopics(cleaned_data, topics)
        failed == {i \in 1..Len(kept) : ~ok[kept[i]]}
        done == {kept[i] : i \in {j \in 1..Len(kept) : \A k \in failed : j < k}}
    IN  Written([t \in done |-> CleanedPath(t)], cleaned_data)

\* data_processor.py lines 216-250: the files save_tableau_data writes
TableauWrites(processed_data, topics, ok) ==
    LET paths == save_tableau_data(processed_data, ok)
    IN  Written(paths,
                [t \in DOMAIN paths |->
                    IF t = "combined" THEN CombinedTable(processed_data, topics)
                    ELSE prepare_tableau_export(processed_data[t])])

\* TwitterDataCollector.save_raw_data called with a mapping topic -> table
SaveRawCall ==
    /\ entry = "save_raw_data"
    /\ ~returned
    /\ stage_out' = save_raw_data(topic_data, write_ok)
    /\ file_system' = RawWrites(topic_data, write_ok) @@ file_system
    /\ stage' = "returned"
    /\ returned' = TRUE
    /\ UNCHANGED <<config, collector, df_in, res_clean, res_again, df_metrics, batch,
                   topic_data, topic_order, write_ok, tableau_df, realtime>>

\* TwitterDataCleaner.save_cleaned_data called with a mapping topic -> table
SaveCleanedCall ==
    /\ entry = "save_cleaned_data"
    /\ ~returned
    /\ LET r == save_cleaned_data(topic_data, write_ok)
       IN  /\ stage_out' = IF r.exc = "none" THEN r.paths ELSE <<>>
           /\ stage' = IF r.exc = "none" THEN "returned" ELSE "raised"
    /\ file_system' = CleanedWrites(topic_data, topic_order, write_ok) @@ file_system
    /\ returned' = TRUE
    /\ UNCHANGED <<config, collector, df_in, res_clean, res_again, df_metrics, batch,
                   topic_data, topic_order, write_ok, tableau_df, realtime>>

\* TwitterDataProcessor.save_tableau_data called with a mapping topic -> table
SaveTableauCall ==
    /\ entry = "save_tableau_data"
    /\ ~returned
    /\ stage_out' = save_tableau_data(topic_data, write_ok)
    /\ file_system' = TableauWrites(topic_data, topic_order, write_ok) @@ file_system
    /\ stage' = "returned"
    /\ returned' = TRUE
    /\ UNCHANGED <<config, collector, df_in, res_clean, res_again, df_metrics, batch,
                   topic_data, topic_order, write_ok, tableau_df, realtime>>

\* TwitterDataProcessor.prepare_tableau_export called with a table
ExportCall ==
    /\ entry = "prepare_tableau_export"
    /\ ~returned
    /\ tableau_df' = prepare_tableau_export(df_in)
    /\ stage' = "returned"
    /\ returned' = TRUE
    /\ UNCHANGED <<config, collector, df_in, res_clean, res_again, df_metrics, batch,
                   topic_data, topic_order, stage_out, write_ok, file_system, realtime>>

(***************************************************************************)
(* collect_and_process_data (main.py).                                     *)
(***************************************************************************)
NoFiles ==
    [raw_files |-> <<>>, cleaned_files |-> <<>>, tableau_files |-> <<>>,
     sentiment_files |-> <<>>]

\* results[kind][topic] = path
Record(res, kind, topic, path) == [res EXCEPT ![kind] = (topic :> path) @@ @]

Ran(topic, name, outcome) == [topic |-> topic, stage |-> name, outcome |-> outcome]

\* line 70: cleaner.clean_topic_data(topic, df_raw), whose parameters are (df, topic)
CleanerCall(topic, df_raw) == clean_topic_data(StrVal(topic), Frame(df_raw))

\* lines 80-84: TwitterSentimentAnalyzer has no method analyze_topic_sentiment
SentimentStage(res, topic, log) ==
    [results |-> res, log |-> Append(log, Ran(topic, "sentiment", "AttributeError"))]

\* lines 74-78
ProcessStage(res, topic, df_clean, io, log) ==
    LET p == process_topic_data(df_clean, topic)
    IN  IF p.exc # "none"
        THEN [results |-> res, log |-> Append(log, Ran(topic, "process", p.exc))]
        ELSE LET files == save_tableau_data(topic :> p.df,
                                            (topic :> io.tableau) @@ ("combined" :> io.tableau))
                 log2 == Append(log, Ran(topic, "process", "ok"))
             IN  IF topic \notin DOMAIN files
                 THEN [results |-> res,
                       log |-> Append(log2, Ran(topic, "export", "KeyError"))]
                 ELSE SentimentStage(Record(res, "tableau_files", topic, files[topic]),
                                     topic, Append(log2, Ran(topic, "export", "ok")))

\* lines 68-72
CleanStage(res, topic, df_raw, io, log) ==
    LET c == CleanerCall(topic, df_raw)
    IN  IF c.exc # "none"
        THEN [results |-> res, log |-> Append(log, Ran(topic, "clean", c.exc))]
        ELSE LET saved == save_cleaned_data(topic :> c.df, topic :> io.cleaned)
             IN  IF saved.exc # "none"
                 THEN [results |-> res, log |-> Append(log, Ran(topic, "clean", saved.exc))]
                 ELSE IF topic \notin DOMAIN saved.paths
                 THEN [results |-> res, log |-> Append(log, Ran(topic, "clean", "KeyError"))]
                 ELSE ProcessStage(Record(res, "cleaned_files", topic, saved.paths[topic]),
                                   topic, c.df, io, Append(log, Ran(topic, "clean", "ok")))

\* lines 60-84: the stages of one topic after its collection; an exception
\* ends the try block and is logged at line 86
RunStages(res, topic, df_raw, io, log) ==
    IF IsEmpty(df_raw)
    THEN [results |-> res, log |-> Append(log, Ran(topic, "collect", "empty"))]
    ELSE LET files == save_raw_data(topic :> df_raw, topic :> io.raw)
             log2 == Append(log, Ran(topic, "collect", "ok"))
         IN  IF topic \notin DOMAIN files
             THEN [results |-> res, log |-> Append(log2, Ran(topic, "save_raw", "KeyError"))]
             ELSE CleanStage(Record(res, "raw_files", topic, files[topic]), topic, df_raw,
                             io, Append(log2, Ran(topic, "save_raw", "ok")))

\* an exception of one topic that leaves the loop
OnStageException_Aborts(topics) == <<>>

\* lines 86-87: the exception is logged and the for-loop goes on
OnStageException(topics) == Tail(topics)

\* whether the last stage that ran in a topic's iteration raised
Raised(log) == log[Len(log)].outcome \notin {"ok", "empty"}

\* lines 50-51: the orders random.shuffle can leave list(keys) in
Shuffles(keys) ==
    {p \in [1..Cardinality(keys) -> keys] : \A x \in keys : \E i \in DOMAIN p : p[i] = x}

\* lines 47-51
BatchStart ==
    /\ entry = "collect_and_process_data"
    /\ stage = "start"
    /\ pending' \in IF args.topic_arg # "all" THEN {<<args.topic_arg>>}
                    ELSE Shuffles(DOMAIN TOPICS_CONFIG)
    /\ stage' = "loop"
    /\ UNCHANGED <<config, call, api_log, all_data, returned, df_in, res_clean,
                   res_again, df_metrics, batch, stages, realtime>>

\* lines 53-59: the next topic, up to its collection
BatchIterate ==
    /\ entry = "collect_and_process_data"
    /\ stage = "loop"
    /\ call.pc = "idle"
    /\ pending # <<>>
    /\ LET topic == Head(pending)
       IN  /\ attempted' = Append(attempted, topic)
           /\ IF args.topic_arg # "all"
              THEN /\ call' = StartCollect(topic, args.count_arg)
                   /\ UNCHANGED <<pending, stage_log>>
              ELSE IF topic \in DOMAIN COLLECTION_SETTINGS
              THEN /\ call' = StartCollect(topic,
                                COLLECTION_SETTINGS[topic].tweets_per_collection)
                   /\ UNCHANGED <<pending, stage_log>>
              ELSE /\ stage_log' = Append(stage_log, Ran(topic, "collect", "KeyError"))
                   /\ pending' = OnStageException(pending)
                   /\ UNCHANGED call
    /\ UNCHANGED <<config, api_log, all_data, returned, cleaner, args, results, stages, realtime>>

\* lines 59-87: the collection has returned, the other stages of the topic run
BatchStages ==
    /\ entry = "collect_and_process_data"
    /\ stage = "loop"
    /\ call.pc = "returned"
    /\ \E io \in [{"raw", "cleaned", "tableau"} -> BOOLEAN] :
          LET after == RunStages(results, call.topic, call.ret, io, stage_log)
          IN  /\ results' = after.results
              /\ stage_log' = after.log
              /\ pending' = IF Raised(after.log) THEN OnStageException(pending)
                            ELSE Tail(pending)
    /\ call' = IdleCall
    /\ UNCHANGED <<config, api_log, all_data, returned, cleaner, args, attempted,
            stages, realtime>>

\* lines 89-90
BatchReturn ==
    /\ entry = "collect_and_process_data"
    /\ stage = "loop"
    /\ call.pc = "idle"
    /\ pending = <<>>
    /\ ~returned
    /\ returned' = TRUE
    /\ UNCHANGED <<config, collector, cleaner, batch, stages, realtime>>

(***************************************************************************)
(* The tables handed to the cleaner: rows with the columns it reads.       *)
(***************************************************************************)
CleanerColumns ==
    <<"tweet_id", "text", "created_at", "user_followers", "retweet_count",
      "favorite_count", "reply_count", "quote_count">>

Row(id, text, created_at, followers, metrics) ==
    [tweet_id |-> id, text |-> text, created_at |-> created_at,
     user_followers |-> followers, retweet_count |-> metrics[1],
     favorite_count |-> metrics[2], reply_count |-> metrics[3],
     quote_count |-> metrics[4]]

SampleRows ==
    {Row("1", StrVal(<<"a", " ", "#", "A">>), [k |-> "isoformat", t |-> MondayMorning],
         10, <<1, 0, 0, 0>>),
     \* the same identifier again, another text
     Row("1", StrVal(<<"b">>), [k |-> "isoformat", t |-> SundayNight], 20, <<0, 2, 0, 0>>),
     \* nothing is left of the text
     Row("2", StrVal(<<"!", " ", "http", "a">>), None, 5, <<0, 0, 0, 0>>),
     \* a celebrity account with the highest score
     Row("3", StrVal(<<"a">>), [k |-> "isoformat", t |-> SundayNight],
         1000000, <<2, 0, 1, 0>>),
     \* no followers
     Row("4", StrVal(<<"www", " ", "b">>), None, 0, <<0, 1, 0, 1>>),
     \* no engagement
     Row("5", None, [k |-> "isoformat", t |-> MondayMorning], 3, <<0, 0, 0, 0>>),
     Row("6", StrVal(<<"b", "!">>), None, 3, <<0, 0, 0, 0>>)}

\* the lists of at most n sample rows
RECURSIVE RowLists(_)
RowLists(n) ==
    IF n = 0 THEN {<<>>}
    ELSE LET shorter == RowLists(n - 1)
         IN  shorter \cup {Append(l, r) : l \in {t \in shorter : Len(t) = n - 1},
                                         r \in SampleRows}

InputTables == {DataFrameOf(l, CleanerColumns) : l \in RowLists(MaxRows)}

(***************************************************************************)
(* Specifications.                                                         *)
(***************************************************************************)
\* the search_queries lists explored: the prefixes of QueryNames
QueryLists == {SubSeq(QueryNames, 1, n) : n \in 0..MaxQueries}

\* the COLLECTION_SETTINGS explored: a topic has settings or none
SettingsOf(S) ==
    {[t \in S |-> [tweets_per_collection |-> c]] : c \in 1..MaxCount}

AllSettings == UNION {SettingsOf(S) : S \in SUBSET Topics}

\* config/setting.py: every step enabled
DefaultProcessing ==
    [remove_duplicates |-> TRUE, clean_text |-> TRUE, extract_hashtags |-> TRUE,
     calculate_engagement |-> TRUE, sentiment_analysis |-> TRUE]

\* the combinations of the four toggles clean_topic_data reads
AllProcessing ==
    {p \in [DOMAIN DefaultProcessing -> BOOLEAN] : p.sentiment_analysis}

InitState ==
    /\ call = IdleCall
    /\ api_log = <<>>
    /\ all_data = <<>>
    /\ returned = FALSE
    /\ res_clean = NoResult
    /\ res_again = NoResult
    /\ df_metrics = EmptyDataFrame
    /\ results = NoFiles
    /\ attempted = <<>>
    /\ stage_log = <<>>

\* no all-topics stage, save or export runs
NoStages ==
    /\ topic_data = <<>>
    /\ topic_order = <<>>
    /\ stage_out = <<>>
    /\ write_ok = <<>>
    /\ file_system = <<>>
    /\ tableau_df = EmptyDataFrame

\* the real-time mode is not started
NoRealtime ==
    /\ running = FALSE
    /\ workers = <<>>
    /\ main_thread = "idle"
    /\ sleeps = <<>>

InitCommon ==
    /\ DATA_PROCESSING = DefaultProcessing
    /\ TABLEAU_EXPORT = DefaultExport
    /\ InitState
    /\ NoStages
    /\ NoRealtime

InitCollect ==
    /\ InitCommon
    /\ entry = "collect_tweets_for_topic"
    /\ args = <<>>
    /\ TOPICS_CONFIG \in [{"sports"} -> QueryLists]
    /\ COLLECTION_SETTINGS = <<>>
    /\ item_pool = RawItems
    /\ pending = <<>>
    /\ stage = "start"
    /\ df_in = EmptyDataFrame

NextCollect == DirectCall \/ Search \/ DirectReturn

SpecCollect == InitCollect /\ [][NextCollect]_vars

InitCollectAll ==
    /\ InitCommon
    /\ entry = "collect_all_topics"
    /\ args = <<>>
    /\ TOPICS_CONFIG \in [Topics -> QueryLists]
    /\ COLLECTION_SETTINGS \in AllSettings
    /\ item_pool = {TweetMalformed}
    /\ pending = TopicOrder
    /\ stage = "start"
    /\ df_in = EmptyDataFrame

NextCollectAll == CollectAllIterate \/ Search \/ CollectAllStore \/ CollectAllReturn

SpecCollectAll == InitCollectAll /\ [][NextCollectAll]_vars

InitClean ==
    /\ InitCommon
    /\ entry = "clean_topic_data"
    /\ args = <<>>
    /\ TOPICS_CONFIG = [t \in Topics |-> QueryNames]
    /\ COLLECTION_SETTINGS = <<>>
    /\ item_pool = {}
    /\ pending = <<>>
    /\ stage = "start"
    /\ df_in \in InputTables

NextClean == CleanCall \/ CleanAgainCall \/ MetricsCall

SpecClean == InitClean /\ [][NextClean]_vars

\* the tables of at most two rows
SmallTables == {t \in InputTables : Len(t.rows) <= 2}

\* clean_topic_data under every combination of the toggles
InitToggles ==
    /\ InitState
    /\ NoStages
    /\ NoRealtime
    /\ TABLEAU_EXPORT = DefaultExport
    /\ DATA_PROCESSING \in AllProcessing
    /\ entry = "clean_topic_data"
    /\ args = <<>>
    /\ TOPICS_CONFIG = [t \in Topics |-> QueryNames]
    /\ COLLECTION_SETTINGS = <<>>
    /\ item_pool = {}
    /\ pending = <<>>
    /\ stage = "start"
    /\ df_in \in SmallTables

NextToggles == CleanCall

SpecToggles == InitToggles /\ [][NextToggles]_vars

\* a table the cleaner accepts
CleanerTable ==
    DataFrameOf(<<Row("1", StrVal(<<"a", " ", "#", "A">>),
                      [k |-> "isoformat", t |-> MondayMorning], 10, <<1, 0, 0, 0>>),
                  Row("6", StrVal(<<"b", "!">>), None, 3, <<0, 0, 0, 0>>)>>,
                CleanerColumns)

\* a table as the collector returns it: like_count, no favorite_count
CollectorTable == ConvertTweets("sports", <<TweetGood, TweetSparse>>)

\* a table without a text column
NoTextTable == DataFrameOf(<<[tweet_id |-> "1"]>>, <<"tweet_id">>)

\* the tables handed to the stages that take a mapping topic -> table
StageTables == {EmptyDataFrame, CleanerTable, CollectorTable, NoTextTable}

\* the mappings topic -> table of some of the topics
TopicTables(tables) == UNION {[S -> tables] : S \in SUBSET Topics}

InitAllTopics ==
    /\ DATA_PROCESSING = DefaultProcessing
    /\ TABLEAU_EXPORT = DefaultExport
    /\ InitState
    /\ NoRealtime
    /\ entry \in {"clean_all_topics", "process_all_topics"}
    /\ args = <<>>
    /\ TOPICS_CONFIG = [t \in Topics |-> QueryNames]
    /\ COLLECTION_SETTINGS = <<>>
    /\ item_pool = {}
    /\ stage = "start"
    /\ df_in = EmptyDataFrame
    /\ topic_data \in TopicTables(StageTables)
    /\ topic_order \in Shuffles(DOMAIN topic_data)
    /\ pending = topic_order
    /\ stage_out = <<>>
    /\ write_ok = <<>>
    /\ file_system = <<>>
    /\ tableau_df = EmptyDataFrame

NextAllTopics == CleanAllStep \/ ProcessAllStep \/ AllTopicsReturn

SpecAllTopics == InitAllTopics /\ [][NextAllTopics]_vars

\* a table whose rows were all filtered out
HeaderOnlyTable == [columns |-> CleanerColumns, rows |-> <<>>]

\* the entry points that take a mapping topic -> table
MappingEntries ==
    {"clean_all_topics", "process_all_topics", "save_raw_data", "save_cleaned_data",
     "save_tableau_data"}

SaveEntries == {"save_raw_data", "save_cleaned_data", "save_tableau_data"}

\* the outcomes of the writes of a save; no write fails elsewhere
WriteOutcomes(e) ==
    IF e \in SaveEntries THEN [Topics \cup {"combined"} -> BOOLEAN]
    ELSE {[n \in Topics \cup {"combined"} |-> TRUE]}

\* one call of a stage or of a save, on tables with and without rows
InitStages ==
    /\ DATA_PROCESSING = DefaultProcessing
    /\ TABLEAU_EXPORT = DefaultExport
    /\ InitState
    /\ NoRealtime
    /\ entry \in MappingEntries \cup {"prepare_tableau_export"}
    /\ args = <<>>
    /\ TOPICS_CONFIG = [t \in Topics |-> QueryNames]
    /\ COLLECTION_SETTINGS = <<>>
    /\ item_pool = {}
    /\ stage = "start"
    /\ df_in \in IF entry \in MappingEntries THEN {EmptyDataFrame}
                 ELSE StageTables \cup {HeaderOnlyTable}
    /\ topic_data \in IF entry \in MappingEntries
                       THEN TopicTables({EmptyDataFrame, HeaderOnlyTable, CleanerTable,
                                         CollectorTable})
                       ELSE {<<>>}
    /\ topic_order \in Shuffles(DOMAIN topic_data)
    /\ pending = topic_order
    /\ stage_out = <<>>
    /\ write_ok \in WriteOutcomes(entry)
    /\ file_system = <<>>
    /\ tableau_df = EmptyDataFrame

NextStages ==
    \/ CleanAllStep
    \/ ProcessAllStep
    \/ AllTopicsReturn
    \/ SaveRawCall
    \/ SaveCleanedCall
    \/ SaveTableauCall
    \/ ExportCall

SpecStages == InitStages /\ [][NextStages]_vars

\* the column lists of the tables handed to prepare_tableau_export: as
\* process_topic_data leaves them, in another order with columns the export
\* does not know, and with no export column at all
ExportColumnLists ==
    {process_topic_data(CollectorTable, "sports").df.columns,
     <<"sentiment_label", "lang", "date", "text", "processed_at", "tweet_id",
       "sentiment_polarity">>,
     <<"month", "topic", "hour_of_day">>,
     <<"lang", "processed_at">>}

\* a table of n rows whose cells tell their column and row
ExportTable(columns, n) ==
    [columns |-> columns,
     rows |-> [i \in 1..n |->
                 [index |-> 2 * i, cells |-> [c \in Range(columns) |-> <<c, i>>]]]]

ExportTables == {ExportTable(columns, n) : columns \in ExportColumnLists, n \in 0..MaxRows}

\* the export settings explored
ExportSettings ==
    [include_sentiment : BOOLEAN, include_engagement_metrics : {TRUE},
     include_time_analysis : {TRUE}, max_records_per_file : 0..MaxCap]

\* prepare_tableau_export of one table under the export settings
InitExport ==
    /\ DATA_PROCESSING = DefaultProcessing
    /\ TABLEAU_EXPORT \in ExportSettings
    /\ InitState
    /\ NoStages
    /\ NoRealtime
    /\ entry = "prepare_tableau_export"
    /\ args = <<>>
    /\ TOPICS_CONFIG = [t \in Topics |-> QueryNames]
    /\ COLLECTION_SETTINGS = <<>>
    /\ item_pool = {}
    /\ pending = <<>>
    /\ stage = "start"
    /\ df_in \in ExportTables

NextExport == ExportCall

SpecExport == InitExport /\ [][NextExport]_vars

\* the processed tables of 0..MaxRows rows handed to save_tableau_data
CappedTables ==
    {ExportTable(<<"tweet_id", "topic", "processed_at">>, n) : n \in 0..MaxRows}

\* save_tableau_data under the export settings
InitExportAll ==
    /\ DATA_PROCESSING = DefaultProcessing
    /\ TABLEAU_EXPORT \in ExportSettings
    /\ InitState
    /\ NoRealtime
    /\ entry = "save_tableau_data"
    /\ args = <<>>
    /\ TOPICS_CONFIG = [t \in Topics |-> QueryNames]
    /\ COLLECTION_SETTINGS = <<>>
    /\ item_pool = {}
    /\ stage = "start"
    /\ df_in = EmptyDataFrame
    /\ topic_data \in TopicTables(CappedTables)
    /\ topic_order \in Shuffles(DOMAIN topic_data)
    /\ pending = topic_order
    /\ stage_out = <<>>
    /\ write_ok = [n \in Topics \cup {"combined"} |-> TRUE]
    /\ file_system = <<>>
    /\ tableau_df = EmptyDataFrame

NextExportAll == SaveTableauCall

SpecExportAll == InitExportAll /\ [][NextExportAll]_vars

\* python main.py --mode collect --topic <topic or all> --count <n>
InitBatch ==
    /\ InitCommon
    /\ entry = "collect_and_process_data"
    /\ args \in [topic_arg : Topics \cup {"all"}, count_arg : 1..MaxCount]
    /\ TOPICS_CONFIG \in [Topics -> {<<>>, <<"q1">>}]
    /\ COLLECTION_SETTINGS \in AllSettings
    \* --count is read for one topic only, COLLECTION_SETTINGS for 'all' only
    /\ args.topic_arg = "all" => args.count_arg = 1
    /\ args.topic_arg # "all" => COLLECTION_SETTINGS = <<>>
    /\ item_pool = {TweetGood}
    /\ pending = <<>>
    /\ stage = "start"
    /\ df_in = EmptyDataFrame

NextBatch == BatchStart \/ BatchIterate \/ Search \/ BatchStages \/ BatchReturn

SpecBatch == InitBatch /\ [][NextBatch]_vars

\* every call of the run returns or raises: the interpreter keeps running
SpecBatchRuns == SpecBatch /\ WF_vars(NextBatch)

(***************************************************************************)
(* RealTimeCollector (scripts/realtime_collector.py) and                   *)
(* start_realtime_mode (main.py): the main thread and one worker thread    *)
(* per key of COLLECTION_SETTINGS, which share the flag running.           *)
(***************************************************************************)
\* list(COLLECTION_SETTINGS.keys())
SettingsKeys == SelectSeq(TopicOrder, LAMBDA t : t \in DOMAIN COLLECTION_SETTINGS)

\* a thread as thread.start() leaves it: before the loop condition
NewWorker ==
    [pc |-> "loop_top", cycles |-> 0, df |-> EmptyDataFrame, killed_at |-> "none"]

\* one time.sleep call: its argument, and how the cycle before it ended
Slept(seconds, after) == [seconds |-> seconds, after |-> after]

\* a worker that has not slept yet
NoSleeps == [count |-> 0, last |-> Slept(0, "none")]

\* time.sleep(seconds) is called
Sleeping(log, seconds, after) == [count |-> log.count + 1, last |-> Slept(seconds, after)]

\* lines 45-53 with the default branch taken for every label
SleepTime_AlwaysHour(topic) == 3600

\* lines 45-53: sleep_time
SleepTime(topic) ==
    LET settings == DictGet(COLLECTION_SETTINGS, topic, <<>>)
        frequency == DictGet(settings, "collection_frequency", "every_hour")
    IN  IF frequency = "every_30_minutes" THEN 1800
        ELSE IF frequency = "every_2_hours" THEN 7200
        ELSE 3600

\* lines 55-56: the cycle completed, the worker sleeps for its cadence
OnCycleDone(log, topic) == Sleeping(log, SleepTime(topic), "completed")

\* lines 58-61: the cycle raised, the worker sleeps for five minutes
OnCycleException(log, topic) == Sleeping(log, 300, "raised")

\* the threads that run
Alive == {t \in DOMAIN workers : workers[t].pc \notin {"exited", "killed"}}

\* what the real-time mode leaves alone
not_realtime ==
    <<TOPICS_CONFIG, COLLECTION_SETTINGS, DATA_PROCESSING, TABLEAU_EXPORT, item_pool,
      entry, call, api_log, all_data, returned, cleaner, batch, topic_data, topic_order,
      stage_out, write_ok, tableau_df>>

\* line 26 as while True: the flag is not read
LoopCondition_IgnoresStop(t) ==
    /\ t \in DOMAIN workers
    /\ workers[t].pc = "loop_top"
    /\ workers[t].cycles < MaxCycles
    /\ workers' = [workers EXCEPT ![t].pc = "collect", ![t].cycles = @ + 1]
    /\ UNCHANGED <<not_realtime, pending, file_system, running, main_thread, sleeps>>

\* line 26: while self.running
LoopCondition(t) ==
    /\ t \in DOMAIN workers
    /\ workers[t].pc = "loop_top"
    /\ running => workers[t].cycles < MaxCycles
    /\ workers' = [workers EXCEPT ![t].pc = IF running THEN "collect" ELSE "exited",
                                  ![t].cycles = IF running THEN @ + 1 ELSE @]
    /\ UNCHANGED <<not_realtime, pending, file_system, running, main_thread, sleeps>>

\* lines 29-31 and 41-56: collect_tweets_for_topic(topic, count=15) returns a
\* table (it raises nothing); without rows the worker goes to sleep
Collect(t) ==
    /\ t \in DOMAIN workers
    /\ workers[t].pc = "collect"
    /\ \E tweets \in {<<>>, <<TweetGood>>} :
         LET df == IF tweets = <<>> THEN EmptyDataFrame ELSE ConvertTweets(t, tweets)
         IN  IF IsEmpty(df)
             THEN /\ workers' = [workers EXCEPT ![t].pc = "sleep"]
                  /\ sleeps' = [sleeps EXCEPT ![t] = OnCycleDone(@, t)]
             ELSE /\ workers' = [workers EXCEPT ![t].pc = "process", ![t].df = df]
                  /\ UNCHANGED sleeps
    /\ UNCHANGED <<not_realtime, pending, file_system, running, main_thread>>

\* lines 32-40 and 44-61: save_raw_data, process_topic_data, save_tableau_data.
\* The directories can be made or not (os.makedirs and mkdir are outside any
\* try); the writes of the cycle succeed or fail (caught in the saves).
ProcessAndExport(t) ==
    /\ t \in DOMAIN workers
    /\ workers[t].pc = "process"
    /\ \E dirs_ok \in BOOLEAN, wrote \in BOOLEAN :
         LET df == workers[t].df
             ok == [n \in {t, "combined"} |-> wrote]
             processed == process_topic_data(df, t)
         IN  IF dirs_ok /\ processed.exc = "none"
             THEN /\ file_system' = TableauWrites((t :> processed.df), <<t>>, ok)
                                    @@ RawWrites((t :> df), ok) @@ file_system
                  /\ workers' = [workers EXCEPT ![t].pc = "sleep",
                                                ![t].df = EmptyDataFrame]
                  /\ sleeps' = [sleeps EXCEPT ![t] = OnCycleDone(@, t)]
             ELSE /\ file_system' = file_system
                  /\ workers' = [workers EXCEPT ![t].pc = "backoff",
                                                ![t].df = EmptyDataFrame]
                  /\ sleeps' = [sleeps EXCEPT ![t] = OnCycleException(@, t)]
    /\ UNCHANGED <<not_realtime, pending, running, main_thread>>

\* lines 56 and 61: time.sleep returns, the loop goes round
Wake(t) ==
    /\ t \in DOMAIN workers
    /\ workers[t].pc \in {"sleep", "backoff"}
    /\ workers' = [workers EXCEPT ![t].pc = "loop_top"]
    /\ UNCHANGED <<not_realtime, pending, file_system, running, main_thread, sleeps>>

\* one step of the worker thread of a topic
WorkerStep(t) == LoopCondition(t) \/ Collect(t) \/ ProcessAndExport(t) \/ Wake(t)

WorkerLoopCondition == \E t \in Topics : LoopCondition(t)

WorkerCollect == \E t \in Topics : Collect(t)

WorkerProcessAndExport == \E t \in Topics : ProcessAndExport(t)

WorkerWake == \E t \in Topics : Wake(t)

\* main.py lines 99-100, realtime_collector.py lines 65-68
RealtimeStart ==
    /\ entry = "start_realtime_mode"
    /\ main_thread = "idle"
    /\ running' = TRUE
    /\ pending' = SettingsKeys
    /\ main_thread' = "starting"
    /\ UNCHANGED <<not_realtime, file_system, workers, sleeps>>

\* realtime_collector.py lines 70-76: one daemon thread is started
StartThread ==
    /\ main_thread = "starting"
    /\ pending # <<>>
    /\ workers' = (Head(pending) :> NewWorker) @@ workers
    /\ sleeps' = (Head(pending) :> NoSleeps) @@ sleeps
    /\ pending' = Tail(pending)
    /\ UNCHANGED <<not_realtime, file_system, running, main_thread>>

\* realtime_collector.py line 78, main.py lines 102-106: threads is bound, the
\* main thread waits
StartReturn ==
    /\ main_thread = "starting"
    /\ pending = <<>>
    /\ main_thread' = "waiting"
    /\ UNCHANGED <<not_realtime, pending, file_system, running, workers, sleeps>>

\* main.py lines 108-110, realtime_collector.py lines 80-83: Ctrl+C.  While
\* start_realtime_collection runs threads is not bound and line 111 raises.
KeyboardInterrupt ==
    /\ main_thread \in {"starting", "waiting"}
    /\ running' = FALSE
    /\ main_thread' = IF main_thread = "waiting" THEN "joining" ELSE "raised"
    /\ UNCHANGED <<not_realtime, pending, file_system, workers, sleeps>>

\* main.py lines 111-114: each join returns when its thread has ended or
\* after five seconds, whichever is first
JoinThreads ==
    /\ main_thread = "joining"
    /\ main_thread' = "returned"
    /\ UNCHANGED <<not_realtime, pending, file_system, running, workers, sleeps>>

\* main.py lines 154 and 160-161: main returns or raises, the interpreter
\* exits and the daemon threads (realtime_collector.py line 72) end with it
ProcessExit ==
    /\ main_thread \in {"returned", "raised"}
    /\ main_thread' = "exited"
    /\ workers' = [t \in DOMAIN workers |->
                     IF t \in Alive
                     THEN [workers[t] EXCEPT !.pc = "killed", !.killed_at = workers[t].pc]
                     ELSE workers[t]]
    /\ UNCHANGED <<not_realtime, pending, file_system, running, sleeps>>

\* the steps of the main thread that need no key press
MainStep == RealtimeStart \/ StartThread \/ StartReturn \/ JoinThreads \/ ProcessExit

\* the collection_frequency labels explored; "none" is a topic without the key
Frequencies == {"every_30_minutes", "every_2_hours", "every_hour", "daily", "none"}

FrequencySettings(f) ==
    IF f = "none" THEN [tweets_per_collection |-> 5]
    ELSE [tweets_per_collection |-> 5, collection_frequency |-> f]

\* python main.py --mode realtime
InitRealtime ==
    /\ InitCommon
    /\ entry = "start_realtime_mode"
    /\ args = <<>>
    /\ TOPICS_CONFIG = [t \in Topics |-> <<"q1">>]
    \* sports as config/topics_config.py has it, stock_market with every label
    /\ \E f \in Frequencies :
         COLLECTION_SETTINGS = [t \in Topics |->
             FrequencySettings(IF t = "sports" THEN "every_2_hours" ELSE f)]
    /\ item_pool = {TweetGood}
    /\ pending = <<>>
    /\ stage = "start"
    /\ df_in = EmptyDataFrame

NextRealtime ==
    \/ RealtimeStart \/ StartThread \/ StartReturn \/ KeyboardInterrupt
    \/ JoinThreads \/ ProcessExit
    \/ WorkerLoopCondition \/ WorkerCollect \/ WorkerProcessAndExport \/ WorkerWake

SpecRealtime == InitRealtime /\ [][NextRealtime]_vars

\* the settings of config/topics_config.py
InitConfigured ==
    /\ InitRealtime
    /\ COLLECTION_SETTINGS["stock_market"] = FrequencySettings("every_30_minutes")

\* every call and every sleep returns, and the main thread runs on
SpecRealtimeRuns ==
    /\ InitConfigured
    /\ [][NextRealtime]_vars
    /\ WF_vars(MainStep)
    /\ \A t \in Topics : WF_vars(WorkerStep(t))

(***************************************************************************)
(* RealTimeCollector used as an object: start_realtime_collection and      *)
(* stop_collection called in any order by one caller.  workers is the list *)
(* of every thread started, stage_log the list of the calls made.          *)
(***************************************************************************)
\* what the calls on the collector and its threads leave alone
not_collector ==
    <<TOPICS_CONFIG, COLLECTION_SETTINGS, DATA_PROCESSING, TABLEAU_EXPORT, item_pool,
      entry, call, api_log, all_data, returned, cleaner, args, results, attempted,
      topic_data, topic_order, stage_out, write_ok, tableau_df>>

\* line 71: Thread(target=self.continuous_collect, args=(topic,)), started
\* by the call number call_no
NewThread(topic, call_no) == [topic |-> topic, call_no |-> call_no] @@ NewWorker

\* lines 65-68: self.running = True, topics = list(COLLECTION_SETTINGS.keys())
start_realtime_collection ==
    /\ entry = "RealTimeCollector"
    /\ main_thread = "idle"
    /\ Len(stage_log) < MaxApiCalls
    /\ running' = TRUE
    /\ pending' = SettingsKeys
    /\ main_thread' = "starting"
    /\ stage_log' = Append(stage_log, "start_realtime_collection")
    /\ UNCHANGED <<not_collector, file_system, workers, sleeps>>

\* lines 70-76: one more daemon thread is started
ThreadStart ==
    /\ entry = "RealTimeCollector"
    /\ main_thread = "starting"
    /\ pending # <<>>
    /\ workers' = Append(workers, NewThread(Head(pending), Len(stage_log)))
    /\ sleeps' = Append(sleeps, NoSleeps)
    /\ pending' = Tail(pending)
    /\ UNCHANGED <<not_collector, file_system, running, main_thread, stage_log>>

\* line 78: return threads
ThreadsReturned ==
    /\ entry = "RealTimeCollector"
    /\ main_thread = "starting"
    /\ pending = <<>>
    /\ main_thread' = "idle"
    /\ UNCHANGED <<not_collector, pending, file_system, running, workers, sleeps,
                   stage_log>>

\* lines 80-83: self.running = False; no thread is joined or replaced
stop_collection ==
    /\ entry = "RealTimeCollector"
    /\ main_thread = "idle"
    /\ Len(stage_log) < MaxApiCalls
    /\ running' = FALSE
    /\ stage_log' = Append(stage_log, "stop_collection")
    /\ UNCHANGED <<not_collector, pending, file_system, workers, main_thread, sleeps>>

\* line 26 in the thread i: while self.running
ThreadLoopCondition(i) ==
    /\ workers[i].pc = "loop_top"
    /\ running => workers[i].cycles < MaxCycles
    /\ workers' = [workers EXCEPT ![i].pc = IF running THEN "collect" ELSE "exited",
                                  ![i].cycles = IF running THEN @ + 1 ELSE @]
    /\ UNCHANGED <<not_collector, pending, file_system, running, main_thread, sleeps,
                   stage_log>>

\* lines 29-31 and 41-56 in the thread i
ThreadCollect(i) ==
    /\ workers[i].pc = "collect"
    /\ \E tweets \in {<<>>, <<TweetGood>>} :
         LET t == workers[i].topic
             df == IF tweets = <<>> THEN EmptyDataFrame ELSE ConvertTweets(t, tweets)
         IN  IF IsEmpty(df)
             THEN /\ workers' = [workers EXCEPT ![i].pc = "sleep"]
                  /\ sleeps' = [sleeps EXCEPT ![i] = OnCycleDone(@, t)]
             ELSE /\ workers' = [workers EXCEPT ![i].pc = "process", ![i].df = df]
                  /\ UNCHANGED sleeps
    /\ UNCHANGED <<not_collector, pending, file_system, running, main_thread, stage_log>>

\* lines 32-40 and 44-61 in the thread i
ThreadProcessAndExport(i) ==
    /\ workers[i].pc = "process"
    /\ \E dirs_ok \in BOOLEAN, wrote \in BOOLEAN :
         LET t == workers[i].topic
             df == workers[i].df
             ok == [n \in {t, "combined"} |-> wrote]
             processed == process_topic_data(df, t)
         IN  IF dirs_ok /\ processed.exc = "none"
             THEN /\ file_system' = TableauWrites((t :> processed.df), <<t>>, ok)
                                    @@ RawWrites((t :> df), ok) @@ file_system
                  /\ workers' = [workers EXCEPT ![i].pc = "sleep",
                                                ![i].df = EmptyDataFrame]
                  /\ sleeps' = [sleeps EXCEPT ![i] = OnCycleDone(@, t)]
             ELSE /\ file_system' = file_system
                  /\ workers' = [workers EXCEPT ![i].pc = "backoff",
                                                ![i].df = EmptyDataFrame]
                  /\ sleeps' = [sleeps EXCEPT ![i] = OnCycleException(@, t)]
    /\ UNCHANGED <<not_collector, pending, running, main_thread, stage_log>>

\* lines 56 and 61 in the thread i: time.sleep returns
ThreadWake(i) ==
    /\ workers[i].pc \in {"sleep", "backoff"}
    /\ workers' = [workers EXCEPT ![i].pc = "loop_top"]
    /\ UNCHANGED <<not_collector, pending, file_system, running, main_thread, sleeps,
                   stage_log>>

AnyThreadLoopCondition ==
    entry = "RealTimeCollector" /\ \E i \in DOMAIN workers : ThreadLoopCondition(i)

AnyThreadCollect ==
    entry = "RealTimeCollector" /\ \E i \in DOMAIN workers : ThreadCollect(i)

AnyThreadProcessAndExport ==
    entry = "RealTimeCollector" /\ \E i \in DOMAIN workers : ThreadProcessAndExport(i)

AnyThreadWake ==
    entry = "RealTimeCollector" /\ \E i \in DOMAIN workers : ThreadWake(i)

\* a RealTimeCollector as __init__ leaves it (lines 17-22), for one topic
\* with its settings of config/topics_config.py
InitCollector ==
    /\ InitCommon
    /\ entry = "RealTimeCollector"
    /\ args = <<>>
    /\ TOPICS_CONFIG = [t \in Topics |-> <<"q1">>]
    /\ \E t \in Topics :
         COLLECTION_SETTINGS =
             (t :> FrequencySettings(IF t = "sports" THEN "every_2_hours"
                                     ELSE "every_30_minutes"))
    /\ item_pool = {TweetGood}
    /\ pending = <<>>
    /\ stage = "start"
    /\ df_in = EmptyDataFrame

NextCollector ==
    \/ start_realtime_collection \/ ThreadStart \/ ThreadsReturned \/ stop_collection
    \/ AnyThreadLoopCondition \/ AnyThreadCollect \/ AnyThreadProcessAndExport
    \/ AnyThreadWake

SpecCollector == InitCollector /\ [][NextCollector]_vars

\* a table is cleaned and the cleaned table processed
NextCleanProcess == CleanCall \/ ProcessCleanedCall

SpecCleanProcess == InitClean /\ [][NextCleanProcess]_vars

\* categorize_time_period called on hours of the day
InitCategorize ==
    /\ InitCommon
    /\ entry = "categorize_time_period"
    /\ args = <<>>
    /\ TOPICS_CONFIG = <<>>
    /\ COLLECTION_SETTINGS = <<>>
    /\ item_pool = {}
    /\ pending = <<>>
    /\ stage = "start"
    /\ df_in = EmptyDataFrame

NextCategorize == CategorizeCall

SpecCategorize == InitCategorize /\ [][NextCategorize]_vars

\* build_search_query called on configurations of some of the topics
InitBuildQuery ==
    /\ InitCommon
    /\ entry = "build_search_query"
    /\ args = <<>>
    /\ TOPICS_CONFIG \in UNION {[S -> QueryLists] : S \in SUBSET Topics}
    /\ COLLECTION_SETTINGS = <<>>
    /\ item_pool = {}
    /\ pending = <<>>
    /\ stage = "start"
    /\ df_in = EmptyDataFrame

NextBuildQuery == BuildQueryCall

SpecBuildQuery == InitBuildQuery /\ [][NextBuildQuery]_vars

\* the symbols of the texts handed to the scorers
TextSymbols == {"a", "A", "b", " ", "!"}

\* the texts of at most MaxWords symbols, None and nan
SentimentInputs ==
    {StrVal(s) : s \in UNION {[1..n -> TextSymbols] : n \in 0..MaxWords}}
        \cup {None, [k |-> "nan"]}

\* one text handed to both scorers
InitSentiment ==
    /\ InitCommon
    /\ entry = "analyze_sentiment"
    /\ args \in [text : SentimentInputs]
    /\ TOPICS_CONFIG = <<>>
    /\ COLLECTION_SETTINGS = <<>>
    /\ item_pool = {}
    /\ pending = <<>>
    /\ stage = "start"
    /\ df_in = EmptyDataFrame

NextSentiment == SentimentCall

SpecSentiment == InitSentiment /\ [][NextSentiment]_vars

(***************************************************************************)
(* What the search capability answered, read from api_log.                 *)
(***************************************************************************)
\* the requests issued for a topic, in order
LogOf(topic) == SelectSeq(api_log, LAMBDA e : e.topic = topic)

\* the raw items of a list of requests, in order
ItemsOf(log) == Concat([i \in 1..Len(log) |-> log[i].items])

\* the identifier a raw item carries, as text
ItemId(item) == IF "id" \in DOMAIN item THEN ToString(item.id.v) ELSE "unknown"

\* the tweet_id column of a table
IdColumn(df) == [i \in 1..Len(df.rows) |-> df.rows[i].cells.tweet_id]

\* the identifiers of a list of raw items
ItemIds(items) == [i \in 1..Len(items) |-> ItemId(items[i])]

\* was the target count reached once request n of the log was answered
TargetReached(log, n, count) == Len(ItemsOf(SubSeq(log, 1, n))) >= count

(***************************************************************************)
(* Claims about collect_tweets_for_topic (SpecCollect).                    *)
(***************************************************************************)
\* C1: the table collect_tweets_for_topic returns has exactly one complete
\* canonical record per raw item fetched, in fetch order, and each record
\* carries the identifier of its own raw item ("unknown" for an item that has
\* no id attribute), whatever fields of the items are missing or malformed.
C1_OneRecordPerItem ==
    call.pc = "returned" =>
        LET items == ItemsOf(LogOf(call.topic))
        IN  /\ Len(call.ret.rows) = Len(items)
            /\ IdColumn(call.ret) = ItemIds(items)
            /\ \A i \in 1..Len(call.ret.rows) :
                  Range(TweetColumns) \subseteq DOMAIN call.ret.rows[i].cells

\* a batch with a corrupt item and a well-formed one came back as two records
C1_Witness ==
    /\ call.pc = "returned"
    /\ LET items == ItemsOf(LogOf(call.topic))
       IN  /\ Len(call.ret.rows) = 2
           /\ \E i, j \in 1..Len(items) :
                 /\ MapRaises(items[i]) /\ "id" \in DOMAIN items[i]
                 /\ ~MapRaises(items[j])

\* C2: once a query is over quota no further query is issued for the topic,
\* the call returns, and the table holds exactly the items of the queries
\* before it.
C2_QuotaEndsTopic ==
    \A k \in 1..Len(api_log) :
        api_log[k].outcome = "quota" =>
            /\ k = Len(api_log)
            /\ call.pc = "returned"
            /\ IdColumn(call.ret) = ItemIds(ItemsOf(SubSeq(api_log, 1, k - 1)))

\* the second query was over quota after the first had returned items
C2_Witness ==
    /\ Len(api_log) = 2
    /\ api_log[1].outcome = "data" /\ api_log[1].items # <<>>
    /\ api_log[2].outcome = "quota" /\ api_log[2].q = 2
    /\ call.pc = "returned" /\ Len(call.ret.rows) = Len(api_log[1].items)

C3_ErrorSkipsQuery ==
    \A k \in 1..Len(api_log) :
        api_log[k].outcome = "error" =>
            LET e == api_log[k]
                before == ItemsOf(SubSeq(api_log, 1, k - 1))
            IN  /\ call.pc = "loop" =>
                    /\ call.i > e.q
                    /\ SubSeq(call.all_tweets, 1, Len(before)) = before
                /\ k = Len(api_log) =>
                    /\ call.pc = "loop" => call.i = e.q + 1 /\ call.all_tweets = before
                    /\ call.pc = "returned" => e.q = Len(TOPICS_CONFIG[e.topic])
                /\ call.pc = "returned" =>
                    /\ IdColumn(call.ret) = ItemIds(ItemsOf(api_log))
                    /\ \A j \in (e.q + 1)..Len(TOPICS_CONFIG[e.topic]) :
                          \/ \E n \in 1..Len(api_log) : api_log[n].q = j
                          \/ \E n \in (k + 1)..Len(api_log) :
                                /\ api_log[n].q < j
                                /\ \/ api_log[n].outcome = "quota"
                                   \/ TargetReached(api_log, n, call.count)

\* the first query failed, the second was still issued and its items returned
C3_Witness ==
    /\ Len(api_log) = 2
    /\ api_log[1].outcome = "error" /\ api_log[1].q = 1
    /\ api_log[2].outcome = "data" /\ api_log[2].q = 2 /\ api_log[2].items # <<>>
    /\ call.pc = "returned" /\ Len(call.ret.rows) = Len(api_log[2].items)

(***************************************************************************)
(* Claims about collect_all_topics (SpecCollectAll).                       *)
(***************************************************************************)
\* did the collection of a topic fail entirely
FailedEntirely(topic) ==
    \/ topic \notin DOMAIN COLLECTION_SETTINGS
    \/ \A i \in 1..Len(LogOf(topic)) : LogOf(topic)[i].outcome # "data"

\* C4: collect_all_topics returns one entry for every configured topic; a
\* topic whose collection fails entirely maps to an empty table; every topic
\* that has settings and queries is collected, whatever happened to the topics
\* before it, and maps to the records of the items its own queries returned.
C4_TopicsIndependent ==
    returned =>
        /\ DOMAIN all_data = DOMAIN TOPICS_CONFIG
        /\ \A t \in DOMAIN TOPICS_CONFIG :
              /\ FailedEntirely(t) => all_data[t] = EmptyDataFrame
              /\ t \in DOMAIN COLLECTION_SETTINGS =>
                    /\ TOPICS_CONFIG[t] # <<>> => LogOf(t) # <<>>
                    /\ IdColumn(all_data[t]) = ItemIds(ItemsOf(LogOf(t)))
                    /\ \A i \in 1..Len(all_data[t].rows) :
                          all_data[t].rows[i].cells.topic = t

\* the first topic failed entirely and the topic after it has its records
C4_Witness ==
    /\ returned
    /\ FailedEntirely(TopicOrder[1])
    /\ LogOf(TopicOrder[1]) # <<>>
    /\ all_data[TopicOrder[1]] = EmptyDataFrame
    /\ all_data[TopicOrder[2]].rows # <<>>

(***************************************************************************)
(* Claims about the cleaner (SpecClean).                                   *)
(***************************************************************************)
\* has the first clean_topic_data call returned a table
Cleaned == stage \in {"cleaned", "recleaned"} /\ res_clean.exc = "none"

\* the columns of the input a cleaned row keeps
KeptColumns == Range(CleanerColumns) \ {"created_at"}

\* C7: the output of clean_topic_data holds each identifier at most once, the
\* row that survives for an identifier is the one of its first occurrence in
\* the input, and the surviving rows are in input order.
C7_FirstOccurrenceKept ==
    Cleaned =>
        LET out == res_clean.df.rows
        IN  /\ \A i, j \in 1..Len(out) :
                  i < j => /\ out[i].cells.tweet_id # out[j].cells.tweet_id
                           /\ out[i].index < out[j].index
            /\ \A i \in 1..Len(out) :
                  LET at == out[i].index + 1
                  IN  /\ at \in 1..Len(df_in.rows)
                      /\ \A c \in KeptColumns :
                            out[i].cells[c] = df_in.rows[at].cells[c]
                      /\ \A j \in 1..(at - 1) :
                            df_in.rows[j].cells.tweet_id # out[i].cells.tweet_id

\* an identifier came twice with different texts and one row of it survived
C7_Witness ==
    /\ Cleaned
    /\ \E i, j \in 1..Len(df_in.rows) :
          /\ i < j
          /\ df_in.rows[i].cells.tweet_id = df_in.rows[j].cells.tweet_id
          /\ df_in.rows[i].cells.text # df_in.rows[j].cells.text
          /\ \E n \in 1..Len(res_clean.df.rows) :
                res_clean.df.rows[n].cells.tweet_id = df_in.rows[i].cells.tweet_id

\* C8: clean_topic_data is idempotent: cleaning its own output gives the same
\* table, every derived value included.
C8_CleanIdempotent == stage = "recleaned" => res_again = res_clean

\* the normalized virality score of a row, as a fraction
Normalized(row) == row.cells.virality_score_normalized

\* C9: after clean_topic_data the normalized score is 0 for every row when all
\* virality scores of the table are 0; otherwise the highest normalized score
\* of the table is exactly 100 and every score lies between 0 and 100.
C9_NormalizedMaxIs100 ==
    (Cleaned /\ res_clean.df.rows # <<>>) =>
        LET out == res_clean.df.rows
        IN  IF \A i \in 1..Len(out) : out[i].cells.virality_score.n = 0
            THEN \A i \in 1..Len(out) : Normalized(out[i]).n = 0
            ELSE /\ \E i \in 1..Len(out) : Normalized(out[i]) = [n |-> 100, d |-> 1]
                 /\ \A i \in 1..Len(out) :
                       /\ Normalized(out[i]).n >= 0
                       /\ Normalized(out[i]).n <= 100 * Normalized(out[i]).d

\* C10: calculate_engagement_metrics sets total_engagement to the unweighted
\* sum of the four counts and engagement_rate to
\* total_engagement / max(followers, 1) * 100, a finite number for 0 followers.
C10_EngagementRate ==
    stage = "metrics" =>
        \A i \in 1..Len(df_metrics.rows) :
            LET c == df_metrics.rows[i].cells
            IN  /\ c.total_engagement
                     = c.retweet_count + c.favorite_count + c.quote_count + c.reply_count
                /\ c.engagement_rate.d > 0
                /\ c.engagement_rate.n * Max(c.user_followers, 1)
                     = c.total_engagement * 100 * c.engagement_rate.d

\* a row with engagement and no followers got total_engagement * 100
C10_Witness ==
    /\ stage = "metrics"
    /\ \E i \in 1..Len(df_metrics.rows) :
          LET c == df_metrics.rows[i].cells
          IN  /\ c.user_followers = 0
              /\ c.total_engagement > 0
              /\ c.engagement_rate = [n |-> c.total_engagement * 100, d |-> 1]

\* the columns a step of clean_topic_data adds, by its toggle
StepColumns ==
    [clean_text |-> {"text_cleaned"},
     extract_hashtags |-> {"hashtags_extracted"},
     calculate_engagement |-> {"total_engagement", "engagement_rate", "virality_score",
                               "virality_score_normalized"}]

\* C11: under every combination of the toggles clean_topic_data completes on
\* a table that has the raw columns, the columns of a step are in the result
\* exactly when the step is enabled, and duplicates are dropped exactly when
\* remove_duplicates is enabled.
C11_TogglesIndependent ==
    (stage = "cleaned" /\ ~IsEmpty(df_in)) =>
        /\ res_clean.exc = "none"
        /\ \A step \in DOMAIN StepColumns :
              IF DATA_PROCESSING[step]
              THEN StepColumns[step] \subseteq Range(res_clean.df.columns)
              ELSE StepColumns[step] \cap Range(res_clean.df.columns) = {}
        /\ DATA_PROCESSING.remove_duplicates =>
              \A i, j \in DOMAIN res_clean.df.rows :
                  res_clean.df.rows[i].cells.tweet_id = res_clean.df.rows[j].cells.tweet_id
                      => i = j

\* the first-occurrence rows of the input of clean_topic_data
FirstOccurrences == drop_duplicates(df_in).rows

\* does the filter of lines 203-207 keep a row of the input
Passes(cells) ==
    /\ Len(clean_text(cells.text)) > 0
    /\ cells.user_followers > 0
    /\ cells.user_followers < 1000000

StageOf(df, topic) ==
    IF entry = "clean_all_topics" THEN clean_topic_data(Frame(df), StrVal(topic))
    ELSE process_topic_data(df, topic)

\* C13: clean_all_topics and process_all_topics return a mapping with exactly
\* the keys of their input; a topic whose stage raises maps to an empty table
\* and every other topic to what the stage gives for that topic's table alone.
C13_AllTopicsKeepKeys ==
    (entry \in {"clean_all_topics", "process_all_topics"} /\ returned) =>
        /\ DOMAIN stage_out = DOMAIN topic_data
        /\ \A t \in DOMAIN topic_data :
              LET r == StageOf(topic_data[t], t)
              IN  stage_out[t] = IF r.exc = "none" THEN r.df ELSE EmptyDataFrame

\* clean_all_topics returned for two topics: the stage raised for the first
\* and gave a non-empty table for the second
C13_Witness ==
    /\ entry = "clean_all_topics"
    /\ returned
    /\ Len(topic_order) = 2
    /\ StageOf(topic_data[topic_order[1]], topic_order[1]).exc # "none"
    /\ ~IsEmpty(stage_out[topic_order[2]])

\* the topics of the mapping whose table has no row
EmptyTopics == {t \in DOMAIN topic_data : IsEmpty(topic_data[t])}

\* the paths a save can write for a topic
PathsOf(t) == {RawPath(t), CleanedPath(t), TableauPath(t)}

\* C14: for a topic whose table is empty clean_topic_data and
\* process_topic_data return an empty table without raising, as does
\* prepare_tableau_export; a save returns no path and writes no file for the
\* topic, and raises only on the failed write of a table that has rows.
C14_EmptyTableNoFile ==
    /\ (entry \in {"clean_all_topics", "process_all_topics"} /\ returned) =>
          \A t \in EmptyTopics :
              /\ StageOf(topic_data[t], t) = Ok(topic_data[t])
              /\ IsEmpty(stage_out[t])
    /\ (entry = "prepare_tableau_export" /\ returned /\ IsEmpty(df_in)) =>
          IsEmpty(tableau_df)
    /\ (entry \in SaveEntries /\ returned) =>
          /\ \A t \in EmptyTopics :
                /\ t \notin DOMAIN stage_out
                /\ PathsOf(t) \cap DOMAIN file_system = {}
          /\ stage = "raised" =>
                \E t \in DOMAIN topic_data \ EmptyTopics : ~write_ok[t]
          /\ EmptyTopics = DOMAIN topic_data =>
                stage_out = <<>> /\ file_system = <<>>

\* a save returned for a topic without rows and a topic with rows, whose
\* file was written
C14_Witness ==
    /\ entry \in SaveEntries
    /\ returned
    /\ EmptyTopics # {}
    /\ \E t \in DOMAIN topic_data \ EmptyTopics :
          t \in DOMAIN stage_out /\ stage_out[t] \in DOMAIN file_system

\* has prepare_tableau_export returned the export of df_in
Exported == entry = "prepare_tableau_export" /\ returned

\* C16: prepare_tableau_export of a table of n rows under the cap m returns
\* min(n, m) rows, the first min(n, m) rows of the input in their order.
C16_HeadTruncation ==
    (Exported /\ ~IsEmpty(df_in)) =>
        LET kept == Min(Len(df_in.rows), TABLEAU_EXPORT.max_records_per_file)
        IN  /\ Len(tableau_df.rows) = kept
            /\ \A i \in 1..kept :
                  /\ tableau_df.rows[i].index = df_in.rows[i].index
                  /\ \A c \in DOMAIN tableau_df.rows[i].cells :
                        tableau_df.rows[i].cells[c] = df_in.rows[i].cells[c]

\* a table with more rows than the cap was exported, and rows were kept
C16_Witness ==
    /\ Exported
    /\ Len(df_in.rows) > TABLEAU_EXPORT.max_records_per_file
    /\ tableau_df.rows # <<>>
    /\ tableau_df.columns # <<>>

\* the fixed export column list, without and with the sentiment columns
FixedColumns ==
    <<"tweet_id", "text", "cleaned_text", "created_at", "topic", "username",
      "user_followers", "user_verified", "retweet_count", "like_count", "reply_count",
      "quote_count", "engagement_score", "hashtags", "mentions", "hour_of_day",
      "day_of_week", "month", "date">>

SentimentColumns == <<"sentiment_polarity", "sentiment_subjectivity", "sentiment_label">>

\* the place of a column in a list that has it
PlaceIn(c, list) == CHOOSE i \in DOMAIN list : list[i] = c

\* are the members of the list a in the order they have in the list b
InOrderOf(a, b) ==
    \A i, j \in DOMAIN a : i < j => PlaceIn(a[i], b) < PlaceIn(a[j], b)

RECURSIVE RowsBefore(_, _)
RowsBefore(tables, k) ==
    IF k = 0 THEN 0 ELSE RowsBefore(tables, k - 1) + Len(tables[k].rows)

\* the topics with rows handed to save_tableau_data, in iteration order
ExportedTopics == NonEmptyTopics(topic_data, topic_order)

\* the export tables of these topics
ExportsOf(topics) == [k \in 1..Len(topics) |-> prepare_tableau_export(topic_data[topics[k]])]

\* C17: when its writes succeed save_tableau_data returns a path for exactly
\* the topics whose table has rows, and a 'combined' path exactly when there
\* is such a topic; the combined file holds the rows of the per-topic export
\* tables, topic after topic in iteration order, each topic's rows in the
\* order of its export table.  A path is never returned for an empty table.
C17_ExportAll ==
    (entry = "save_tableau_data" /\ returned) =>
        LET exports == ExportsOf(ExportedTopics)
        IN  /\ DOMAIN stage_out \subseteq Range(ExportedTopics) \cup {"combined"}
            /\ (\A n \in DOMAIN write_ok : write_ok[n]) =>
                  /\ DOMAIN stage_out \ {"combined"} = Range(ExportedTopics)
                  /\ "combined" \in DOMAIN stage_out <=> ExportedTopics # <<>>
                  /\ \A t \in Range(ExportedTopics) :
                        file_system[stage_out[t]] = prepare_tableau_export(topic_data[t])
            /\ "combined" \in DOMAIN stage_out =>
                  LET combined == file_system[stage_out["combined"]]
                  IN  /\ Len(combined.rows) = RowsBefore(exports, Len(exports))
                      /\ \A k \in DOMAIN exports : \A i \in DOMAIN exports[k].rows :
                            \A c \in Range(exports[k].columns) :
                                combined.rows[RowsBefore(exports, k - 1) + i].cells[c]
                                    = exports[k].rows[i].cells[c]

\* two topics with rows were saved, the second of the configuration first,
\* next to nothing failing
C17_Witness ==
    /\ entry = "save_tableau_data"
    /\ returned
    /\ \A n \in DOMAIN write_ok : write_ok[n]
    /\ Len(ExportedTopics) = 2
    /\ ExportedTopics # TopicOrder
    /\ topic_data[ExportedTopics[1]] # topic_data[ExportedTopics[2]]
    /\ Len(file_system[stage_out["combined"]].rows) = 4

(***************************************************************************)
(* Batch mode.                                                             *)
(***************************************************************************)
Occurrences(l, x) == Cardinality({i \in DOMAIN l : l[i] = x})

StagesOf(topic) == SelectSeq(stage_log, LAMBDA e : e.topic = topic)

\* C5: a batch run over all topics returns, and when it does it has attempted
\* every configured topic exactly once, whatever was raised in a topic's stages.
C5_EveryTopicAttempted ==
    /\ [](args.topic_arg = "all" =>
            /\ \A t \in Range(attempted) :
                  t \in DOMAIN TOPICS_CONFIG /\ Occurrences(attempted, t) = 1
            /\ returned => Range(attempted) = DOMAIN TOPICS_CONFIG)
    /\ <>returned

\* the first topic attempted raised in one of its stages, the second was
\* attempted all the same, and the run returned
C5_Witness ==
    /\ returned
    /\ args.topic_arg = "all"
    /\ Len(attempted) = 2
    /\ Raised(StagesOf(attempted[1]))
    /\ StagesOf(attempted[2]) # <<>>

\* C6: when the run returns, a topic whose collection was not empty has its
\* stages logged in the order collect, clean, process, export, every one
\* completed, and has a cleaned file and an export file recorded.
C6_StagesInOrder ==
    returned =>
        \A t \in Range(attempted) :
            (\E i \in DOMAIN stage_log : stage_log[i] = Ran(t, "collect", "ok")) =>
                /\ \E i, j, k \in DOMAIN stage_log :
                      /\ i < j /\ j < k
                      /\ stage_log[i] = Ran(t, "clean", "ok")
                      /\ stage_log[j] = Ran(t, "process", "ok")
                      /\ stage_log[k] = Ran(t, "export", "ok")
                /\ t \in DOMAIN results.cleaned_files
                /\ t \in DOMAIN results.tableau_files

(***************************************************************************)
(* Claims about the real-time mode (SpecRealtime, SpecRealtimeRuns).       *)
(***************************************************************************)
\* stop_collection has been called (main.py line 110)
StopRequested == main_thread \in {"joining", "raised", "returned", "exited"}

\* the place of a worker in its loop, for an ended thread the place it ended at
PlaceOf(w) == IF w.pc = "killed" THEN w.killed_at ELSE w.pc

\* an iteration of the loop body is in progress
InIteration(w) == w.pc \in {"collect", "process", "sleep", "backoff"}

\* after stop_collection a running worker ends
EndsAfterStop(t) == (StopRequested /\ t \in Alive) ~> (t \notin Alive)

\* stop_collection itself touches no worker, and after it a worker starts no
\* cycle: the loop condition it evaluates next makes it exit
StopAtLoopTop ==
    /\ (running /\ ~running') => workers' = workers
    /\ StopRequested =>
         \A t \in DOMAIN workers :
            /\ workers'[t].pc = "collect" => workers[t].pc = "collect"
            /\ (workers[t].pc = "loop_top" /\ workers'[t] # workers[t]) =>
                  workers'[t].pc \in {"exited", "killed"}

\* no step ends a worker in the middle of an iteration
IterationCompletes ==
    \A t \in DOMAIN workers : InIteration(workers[t]) => workers'[t].pc # "killed"

\* a worker is ended in the middle of an iteration by the exit of the process
\* only, after the joins of main.py line 112 have returned or line 111 raised
OnlyProcessExitInterrupts ==
    \A t \in DOMAIN workers :
        (workers[t].pc # "killed" /\ workers'[t].pc = "killed") =>
            main_thread \in {"returned", "raised"} /\ main_thread' = "exited"

\* C19 as stated: after stop_collection every worker eventually ends, no
\* worker begins a new cycle once it has next evaluated its loop condition,
\* and an iteration in progress is not interrupted.
C19_CooperativeStop ==
    /\ \A t \in Topics : EndsAfterStop(t)
    /\ [][StopAtLoopTop]_vars
    /\ [][IterationCompletes]_vars

\* C19, amended: after stop_collection every worker eventually ends, no
\* worker begins a new cycle once it has next evaluated its loop condition,
\* and an iteration in progress is interrupted by nothing but the exit of the
\* process that follows the joins.
C19_StopThenExit ==
    /\ \A t \in Topics : EndsAfterStop(t)
    /\ [][StopAtLoopTop]_vars
    /\ [][OnlyProcessExitInterrupts]_vars

\* after Ctrl+C one worker left its loop at the loop condition and the other
\* was still asleep when the process exited
C19_Witness ==
    /\ main_thread = "exited"
    /\ \E t, u \in DOMAIN workers :
          /\ workers[t].pc = "exited"
          /\ workers[u].pc = "killed"
          /\ workers[u].killed_at = "sleep"

\* the seconds the claim gives for a topic's cadence label
CadenceSeconds(t) ==
    LET s == COLLECTION_SETTINGS[t]
        label == IF "collection_frequency" \in DOMAIN s THEN s.collection_frequency
                 ELSE "every_hour"
    IN  CASE label = "every_30_minutes" -> 1800
          [] label = "every_2_hours" -> 7200
          [] OTHER -> 3600

\* one sleep per cycle begun and finished, of the length the claim gives
OneSleepPerCycle(t) ==
    LET w == workers[t]
        log == sleeps[t]
        place == PlaceOf(w)
    IN  /\ log.count = IF place \in {"collect", "process"} THEN w.cycles - 1 ELSE w.cycles
        /\ log.count > 0 =>
              log.last.seconds = IF log.last.after = "raised" THEN 300
                                 ELSE CadenceSeconds(t)
        /\ place = "sleep" => log.last.after = "completed"
        /\ place = "backoff" => log.last.after = "raised"

\* while stop is not requested: a sleep that returns leads to the loop
\* condition and the loop condition to a new cycle
SleepThenNewCycle ==
    ~StopRequested' =>
        \A t \in DOMAIN workers :
            workers'[t] # workers[t] =>
                /\ workers[t].pc \in {"sleep", "backoff"} => workers'[t].pc = "loop_top"
                /\ workers[t].pc = "loop_top" =>
                      /\ workers'[t].pc = "collect"
                      /\ workers'[t].cycles = workers[t].cycles + 1

\* a cycle that raises changes nothing of another worker
ErrorStaysInWorker ==
    \A t, u \in DOMAIN workers :
        (t # u /\ workers[t].pc # "backoff" /\ workers'[t].pc = "backoff") =>
            /\ workers'[u] = workers[u]
            /\ sleeps'[u] = sleeps[u]

\* C20: while stop has not been requested no worker has ended; every cycle is
\* followed by exactly one sleep, of the topic's cadence (1800, 7200, else
\* 3600 seconds) after a cycle that completes and of 300 seconds after one
\* that raises, and then by a new cycle; a cycle that raises in one worker
\* changes nothing of the others.
C20_WorkerKeepsCycling ==
    /\ [](\A t \in DOMAIN workers :
             /\ t \notin Alive => StopRequested
             /\ OneSleepPerCycle(t))
    /\ [][SleepThenNewCycle]_vars
    /\ [][ErrorStaysInWorker]_vars

\* stop is not requested; one worker's first cycle raised, it slept 300
\* seconds and is in its second cycle, while the sports worker completed a
\* cycle and slept its two hours
C20_Witness ==
    /\ ~StopRequested
    /\ \E t \in DOMAIN workers :
          /\ t # "sports"
          /\ sleeps[t] = [count |-> 1, last |-> Slept(300, "raised")]
          /\ workers[t].pc = "collect"
          /\ workers[t].cycles = 2
    /\ "sports" \in DOMAIN workers
    /\ sleeps["sports"] = [count |-> 1, last |-> Slept(7200, "completed")]

\* the topics named in the rows of a file: every table a worker saves
\* carries its worker's topic in each row
TopicsOf(table) == {table.rows[i].cells["topic"] : i \in DOMAIN table.rows}

\* C21: in continuous mode no file written by one worker is written or
\* overwritten by another: a path that holds one topic's rows never comes
\* to hold another topic's rows.
C21_NoSharedPath ==
    [][\A p \in DOMAIN file_system \cap DOMAIN file_system' :
          TopicsOf(file_system'[p]) = TopicsOf(file_system[p])]_vars

(***************************************************************************)
(* Claims about the sentiment scorers (SpecSentiment).                     *)
(***************************************************************************)
\* the label the claim gives to a polarity
LabelOf(p) ==
    CASE p.n * 10 > p.d -> "positive"
      [] p.n * 10 < -p.d -> "negative"
      [] OTHER -> "neutral"

\* C22: both scorers label a polarity positive exactly above 0.1, negative
\* exactly below -0.1 and neutral otherwise, so they agree on every text;
\* for a null or empty text both give polarity 0.0 and neutral.
C22_SameLabel ==
    stage = "returned" =>
        LET p == stage_out.processor
            a == stage_out.analyzer
        IN  /\ p.sentiment_label = LabelOf(p.polarity)
            /\ a.sentiment_label = LabelOf(a.polarity)
            /\ p.polarity = a.polarity => p.sentiment_label = a.sentiment_label
            /\ (args.text.k # "str" \/ args.text.v = <<>>) =>
                  /\ p.polarity = Ratio(0, 1) /\ p.sentiment_label = "neutral"
                  /\ a.polarity = Ratio(0, 1) /\ a.sentiment_label = "neutral"

\* a text of polarity exactly 0.1 or -0.1 was scored: neutral with both
C22_Witness ==
    /\ stage = "returned"
    /\ args.text.k = "str"
    /\ stage_out.processor.polarity \in {Ratio(1, 10), Ratio(-1, 10)}
    /\ stage_out.analyzer.polarity = stage_out.processor.polarity
    /\ stage_out.processor.sentiment_label = "neutral"
    /\ stage_out.analyzer.sentiment_label = "neutral"

(***************************************************************************)
(* Claims about process_topic_data on a cleaned table (SpecCleanProcess).  *)
(***************************************************************************)
\* the calendar columns extract_time_features writes
CalendarColumns == {"hour_of_day", "day_of_week", "month", "date"}

\* C23: a calendar column already present in the table handed to
\* process_topic_data has the same values in its output.
C23_CalendarKept ==
    (stage = "processed" /\ stage_out.exc = "none") =>
        \A col \in CalendarColumns \cap Range(res_clean.df.columns) :
            Column(stage_out.df, col) = Column(res_clean.df, col)

(***************************************************************************)
(* Claims about categorize_time_period (SpecCategorize).                   *)
(***************************************************************************)
\* C24: every hour 0..23 gets exactly one bucket: Morning for 5..11,
\* Afternoon for 12..16, Evening for 17..20 and Night for the rest.
C24_TimeBuckets ==
    \A i \in DOMAIN stage_out :
        LET h == stage_out[i].hour
            p == stage_out[i].time_period
        IN  /\ p \in {"Morning", "Afternoon", "Evening", "Night"}
            /\ p = "Morning" <=> h \in 5..11
            /\ p = "Afternoon" <=> h \in 12..16
            /\ p = "Evening" <=> h \in 17..20
            /\ p = "Night" <=> h \in (0..4) \cup (21..23)

\* hour 4 was put in Night and hour 5 in Morning
C24_Witness ==
    /\ entry = "categorize_time_period"
    /\ \E i, j \in DOMAIN stage_out :
          /\ stage_out[i] = [hour |-> 4, time_period |-> "Night"]
          /\ stage_out[j] = [hour |-> 5, time_period |-> "Morning"]

(***************************************************************************)
(* Claims about build_search_query (SpecBuildQuery).                       *)
(***************************************************************************)
\* a call answered with the topic's configured list, or with the
\* unknown-topic error when the topic has no entry
AnswersFromConfiguration(c) ==
    IF c.topic \in DOMAIN TOPICS_CONFIG
    THEN c.result = [exc |-> "none", queries |-> TOPICS_CONFIG[c.topic]]
    ELSE c.result = [exc |-> "ValueError"]

\* the calls left everything but their results as it was
NothingElseChanged ==
    /\ call = IdleCall
    /\ api_log = <<>>
    /\ all_data = <<>>
    /\ file_system = <<>>

\* C25 as stated: for a topic with an entry the configured queries in
\* order, as a non-empty list; for a topic without one the unknown-topic
\* error; no state is changed.
C25_NonEmptyQueries ==
    entry = "build_search_query" =>
        /\ \A i \in DOMAIN stage_out :
              /\ AnswersFromConfiguration(stage_out[i])
              /\ stage_out[i].result.exc = "none" => stage_out[i].result.queries # <<>>
        /\ NothingElseChanged

\* C25, amended: for a topic with an entry the entry's list of queries as
\* configured, in order, empty when the entry configures none; for a topic
\* without one the unknown-topic error; no state is changed.
C25_ConfiguredQueries ==
    entry = "build_search_query" =>
        /\ \A i \in DOMAIN stage_out :
              /\ AnswersFromConfiguration(stage_out[i])
              /\ stage_out[i].result.exc = "none" =>
                    stage_out[i].result.queries = <<>> <=>
                        TOPICS_CONFIG[stage_out[i].topic] = <<>>
        /\ NothingElseChanged

\* one call returned two configured queries in order, another raised for a
\* topic without an entry
C25_Witness ==
    /\ entry = "build_search_query"
    /\ \E i, j \in DOMAIN stage_out :
          /\ stage_out[i].result = [exc |-> "none", queries |-> <<"q1", "q2">>]
          /\ stage_out[j].topic \notin DOMAIN TOPICS_CONFIG
          /\ stage_out[j].result.exc = "ValueError"

\* C26: the table collect_tweets_for_topic returns never holds more than
\* target_count records, when each fetch returns at most the per-query
\* bound it was asked for.
C26_AtMostTarget ==
    (entry = "collect_tweets_for_topic" /\ call.pc = "returned") =>
        Len(call.ret.rows) <= call.count

(***************************************************************************)
(* Claims about the row cap of the exports (SpecExportAll).                *)
(***************************************************************************)
\* C27: every export table save_tableau_data writes, per topic and
\* combined, has at most max_records_per_file rows.
C27_ExportsCapped ==
    (entry = "save_tableau_data" /\ stage = "returned") =>
        \A p \in DOMAIN file_system :
            Len(file_system[p].rows) <= TABLEAU_EXPORT.max_records_per_file

(***************************************************************************)
(* Claims about restarting the real-time collection (SpecCollector).       *)
(***************************************************************************)
\* stop_collection was called after the thread old was started and before
\* the thread new was
StopBetween(old, new) ==
    \E k \in (workers[old].call_no + 1)..(workers[new].call_no - 1) :
        stage_log[k] = "stop_collection"

\* C28: a worker started before a stop_collection never begins a further
\* cycle while a worker started for the same topic by a later
\* start_realtime_collection runs.
C28_OneWorkerPerTopic ==
    [][\A old \in DOMAIN workers : \A new \in DOMAIN workers :
          (/\ workers[old].topic = workers[new].topic
           /\ StopBetween(old, new)
           /\ workers[new].pc # "exited")
          => ~(workers[old].pc = "loop_top" /\ workers'[old].pc = "collect")]_vars

====
